---- MODULE Spec2Model ----
(***************************************************************************)
(* Remorph backend: the attribution index (src/trace/attribution.py) and   *)
(* the batch orchestrator (src/api/batch_processor.py).                    *)
(*                                                                         *)
(* Feature values are exact rationals <<num, den>> (den > 0, lowest        *)
(* terms), so the running-mean update is computed as the code writes it,   *)
(* without rounding.  The fingerprints file is a sequence of tokens: one   *)
(* token opens the document, one token per family, one token closes it.    *)
(***************************************************************************)
EXTENDS Integers, Sequences, FiniteSets, TLC

VARIABLES
  file,       \* content of the fingerprints file: a record [exists, text]
  fsOk,       \* TRUE while the file system accepts open-for-write
  db,         \* self.db of each AttributionIndex instance
  ipc,        \* position of each index instance: "none", "idle", "save_open", "save_write"
  woff,       \* offset of each instance's open file handle (tokens written so far)
  wbuf,       \* the document each instance is writing in its current _save
  lastOp,     \* the last completed public operation on instance 1
  lastRet,    \* what it returned: "True", "False", "raised", "none"
  lastArgs,   \* the arguments of the last add_sample: [name, features]
  preDb,      \* self.db of instance 1 when the last operation was called
  wrote,      \* TRUE iff the last operation wrote the full document to the file
  history,    \* per family name: the samples add_sample has merged into it
  fsAlwaysOk, \* TRUE iff the file system accepted writes since construction
  streak,     \* the current run of identical add_sample calls on a fresh name
  nCalls,     \* number of add_sample calls made
  saves,      \* per instance: the number of _save runs that wrote their document
  overlapped, \* TRUE once one instance opened the file while the other was writing
  faceAvailable,  \* face_detector._available: MTCNN could be imported
  torchAvailable, \* torch_detector.available: the weights were loaded
  calls,      \* the process_batch calls made on the BatchProcessor
  workQueue,  \* the executor's queue of submitted work items <<call, index>>
  running,    \* the work items the pool's threads are executing
  finished,   \* per call: the indexes of its items in order of completion
  nextId,     \* source of the image identifiers (uuid4)
  fn,         \* the last call of a function of the backend: [op, in, out]
  modState,   \* src.models.face_detector: [state, importer, face_detector]
  cls,        \* FaceDetectorSingleton: [instance, objects, initRuns]
  spc,        \* per thread: its position in FaceDetectorSingleton.__new__
  sret,       \* per thread: the instance its construction returned (0: none yet)
  sOverlap,   \* TRUE once two threads were inside __new__ together
  limiter,    \* rate_limiter: [max_requests, window_seconds]
  requests,   \* rate_limiter.requests[client_id]: the deque of timestamps
  clock,      \* time.time()
  rpc,        \* per thread: its position in check_rate_limit
  rlocal,     \* per thread: its current_time and request_count
  accepted    \* the current_time of every call that returned True

ivars == <<file, fsOk, db, ipc, woff, wbuf, lastOp, lastRet, lastArgs, preDb,
           wrote, history, fsAlwaysOk, streak, nCalls, saves, overlapped>>

bvars == <<faceAvailable, torchAvailable, calls, workQueue, running, finished,
           nextId>>

fvars == <<fn>>

svars == <<modState, cls, spc, sret, sOverlap>>

rvars == <<limiter, requests, clock, rpc, rlocal, accepted>>

cvars == <<svars, rvars>>

vars == <<ivars, bvars, fvars, cvars>>

-----------------------------------------------------------------------------
(* Bounds *)

MaxCalls == 3

MaxItems == 3

MaxWorkers == 2

SampleVals == {1, 3}

SampleKeys == {"ela_mean", "noise_level"}

NewFamilyNames == {"custom_family"}

-----------------------------------------------------------------------------
(* Exact arithmetic on feature values *)

Abs(x) == IF x < 0 THEN -x ELSE x

RECURSIVE GCD(_, _)
GCD(a, b) == IF b = 0 THEN a ELSE GCD(b, a % b)

Rat(n, d) ==
  LET g == GCD(Abs(n), Abs(d))
      s == IF d < 0 THEN -1 ELSE 1
  IN  IF g = 0 THEN <<0, 1>> ELSE <<(s * n) \div g, (s * d) \div g>>

RatOfInt(n) == <<n, 1>>

RatAdd(p, q) == Rat(p[1] * q[2] + q[1] * p[2], p[2] * q[2])

RatSub(p, q) == Rat(p[1] * q[2] - q[1] * p[2], p[2] * q[2])

RatDivInt(p, k) == Rat(p[1], p[2] * k)

RatMul(p, q) == Rat(p[1] * q[1], p[2] * q[2])

-----------------------------------------------------------------------------
(* The database document *)

Null == "null"

DefaultFamilies ==
  << [name |-> "faceswap_blend",
      features_mean |-> [k \in {"fft_high_ratio", "ela_mean", "lap_var", "jpeg_score"} |->
          CASE k = "fft_high_ratio" -> Rat(62, 100)
            [] k = "ela_mean"       -> Rat(18, 1)
            [] k = "lap_var"        -> Rat(120, 1)
            [] k = "jpeg_score"     -> Rat(55, 100)],
      sample_count |-> 0, last_updated |-> Null],
     [name |-> "diffusion_inpaint",
      features_mean |-> [k \in {"fft_high_ratio", "ela_mean", "lap_var", "jpeg_score"} |->
          CASE k = "fft_high_ratio" -> Rat(68, 100)
            [] k = "ela_mean"       -> Rat(12, 1)
            [] k = "lap_var"        -> Rat(160, 1)
            [] k = "jpeg_score"     -> Rat(35, 100)],
      sample_count |-> 0, last_updated |-> Null],
     [name |-> "stylegan_family",
      features_mean |-> [k \in {"fft_high_ratio", "ela_mean", "lap_var", "jpeg_score"} |->
          CASE k = "fft_high_ratio" -> Rat(75, 100)
            [] k = "ela_mean"       -> Rat(95, 10)
            [] k = "lap_var"        -> Rat(180, 1)
            [] k = "jpeg_score"     -> Rat(4, 10)],
      sample_count |-> 0, last_updated |-> Null] >>

\* self.db: a JSON object; has_families is FALSE for an object without a
\* "families" member (json.load accepts any JSON value).
EmptyDb == [has_families |-> TRUE, families |-> <<>>]

DefaultDb == [has_families |-> TRUE, families |-> DefaultFamilies]

ObjectWithoutFamilies == [has_families |-> FALSE, families |-> <<>>]

-----------------------------------------------------------------------------
(* The file: json.dump / json.load *)

NoFeatures == [k \in {} |-> <<0, 1>>]

NoFamily == [name |-> "", features_mean |-> NoFeatures, sample_count |-> 0,
             last_updated |-> Null]

\* "open" stands for the text up to and including `"families": [`, "close"
\* for `]}`, "object" for a JSON object without a "families" member, "array"
\* for a JSON array, "hole" for the bytes a write past the end leaves unset.
Tok(t) == [t |-> t, fam |-> NoFamily]

FamTok(f) == [t |-> "fam", fam |-> f]

Encode(d) ==
  IF d.has_families
    THEN <<Tok("open")>> \o [i \in 1..Len(d.families) |-> FamTok(d.families[i])]
                         \o <<Tok("close")>>
    ELSE <<Tok("object")>>

\* json.load: [ok] is FALSE for text json rejects (JSONDecodeError);
\* otherwise is_dict tells a JSON object from any other JSON value.
Parse(text) ==
  IF text = <<Tok("array")>>
    THEN [ok |-> TRUE, is_dict |-> FALSE, value |-> EmptyDb]
  ELSE IF text = <<Tok("object")>>
    THEN [ok |-> TRUE, is_dict |-> TRUE, value |-> ObjectWithoutFamilies]
  ELSE IF /\ Len(text) >= 2
          /\ text[1] = Tok("open")
          /\ text[Len(text)] = Tok("close")
          /\ \A i \in 2..(Len(text) - 1) : text[i].t = "fam"
    THEN [ok |-> TRUE, is_dict |-> TRUE,
          value |-> [has_families |-> TRUE,
                     families |-> [i \in 1..(Len(text) - 2) |-> text[i + 1].fam]]]
  ELSE [ok |-> FALSE, is_dict |-> FALSE, value |-> EmptyDb]

MissingFile == [exists |-> FALSE, text |-> <<>>]

\* open(path, "r+")-like: the old content stays until it is overwritten.
OpenWithoutTruncate(f) == [exists |-> TRUE, text |-> f.text]

\* open(path, "w"): creates the file or truncates it to length 0.
OpenTruncate(f) == [exists |-> TRUE, text |-> <<>>]

\* One write of token tok through a handle positioned at offset off.
WriteAt(f, off, tok) ==
  LET n == IF off + 1 > Len(f.text) THEN off + 1 ELSE Len(f.text)
  IN  [f EXCEPT !.text = [i \in 1..n |->
         IF i = off + 1 THEN tok
         ELSE IF i <= Len(f.text) THEN f.text[i]
         ELSE Tok("hole")]]

RECURSIVE WriteAll(_, _, _)
WriteAll(f, off, doc) ==
  IF off >= Len(doc) THEN f ELSE WriteAll(WriteAt(f, off, doc[off + 1]), off + 1, doc)

\* _save run without interruption: any exception of makedirs/open is
\* swallowed and the file is left as it was.
SaveWhole(f, d, ok) ==
  IF ok THEN WriteAll(OpenTruncate(f), 0, Encode(d)) ELSE f

\* _load: the database the constructor ends with, and whether it went
\* through _create_default_db (which also calls _save).
Load(f) ==
  IF ~f.exists THEN [db |-> DefaultDb, created_default |-> TRUE]
  ELSE LET p == Parse(f.text) IN
       IF ~p.ok THEN [db |-> DefaultDb, created_default |-> TRUE]
       ELSE IF ~p.is_dict THEN [db |-> DefaultDb, created_default |-> TRUE]
       ELSE [db |-> p.value, created_default |-> FALSE]

-----------------------------------------------------------------------------
(* add_sample *)

\* datetime.now().isoformat() in a module that imports datetime.
TimestampImported == [ok |-> TRUE, value |-> "timestamp"]

\* datetime.now().isoformat(): the module never imports datetime, so the
\* name lookup raises NameError.
TimestampNow == [ok |-> FALSE, value |-> Null]

\* A lookup that takes the first family whatever its name.
FirstFamily(fams, name) == IF fams = <<>> THEN 0 ELSE 1

\* Index of the first family named name, 0 when there is none.
FindFamily(fams, name) ==
  IF \E i \in 1..Len(fams) : fams[i].name = name
    THEN CHOOSE i \in 1..Len(fams) :
           /\ fams[i].name = name
           /\ \A j \in 1..(i - 1) : fams[j].name # name
    ELSE 0

\* The loop over features.items() on an existing family with count n.
MergeFeatures(cur, feats, n) ==
  [k \in (DOMAIN cur) \cup (DOMAIN feats) |->
     IF k \in DOMAIN feats
       THEN IF k \in DOMAIN cur
              THEN RatAdd(cur[k], RatDivInt(RatSub(feats[k], cur[k]), n + 1))
              ELSE feats[k]
       ELSE cur[k]]

\* add_sample up to the call of _save: the database it leaves in memory,
\* what it returns, whether it reached _save, and what it did to the family.
AddSample(d, family_name, features) ==
  IF ~d.has_families
    THEN [db |-> d, ret |-> "False", save |-> FALSE, effect |-> "none"]
  ELSE
    LET i == FindFamily(d.families, family_name) IN
    IF i = 0
      THEN IF TimestampNow.ok
             THEN [db |-> [d EXCEPT !.families = Append(@,
                              [name |-> family_name, features_mean |-> features,
                               sample_count |-> 1,
                               last_updated |-> TimestampNow.value])],
                   ret |-> "True", save |-> TRUE, effect |-> "created"]
             ELSE [db |-> d, ret |-> "False", save |-> FALSE, effect |-> "none"]
      ELSE
        LET fam == d.families[i]
            n == fam.sample_count
            merged == [fam EXCEPT !.features_mean = MergeFeatures(@, features, n),
                                  !.sample_count = n + 1]
        IN  IF TimestampNow.ok
              THEN [db |-> [d EXCEPT !.families[i] =
                              [merged EXCEPT !.last_updated = TimestampNow.value]],
                    ret |-> "True", save |-> TRUE, effect |-> "updated"]
              ELSE [db |-> [d EXCEPT !.families[i] = merged],
                    ret |-> "False", save |-> FALSE, effect |-> "updated"]

-----------------------------------------------------------------------------
(* The batch processor before any process_batch call *)

NoCall == [state |-> "none", images |-> <<>>, ids |-> <<>>, futures |-> <<>>,
           results |-> <<>>]

\* The process_batch calls that may be in flight on the one BatchProcessor.
Calls == {1, 2}

\* No function has been called yet.
NoFn == [op |-> "none", in |-> <<>>, out |-> <<>>]

BatchQuiet ==
  /\ faceAvailable = FALSE
  /\ torchAvailable = FALSE
  /\ calls = [c \in Calls |-> NoCall]
  /\ workQueue = <<>>
  /\ running = {}
  /\ finished = [c \in Calls |-> <<>>]
  /\ nextId = 1

FnQuiet == fn = NoFn

\* The threads that construct FaceDetectorSingleton or call the rate
\* limiter.
MaxThreads == 3

Threads == 1..MaxThreads

\* The face detector module is not imported yet and no thread is inside
\* __new__.
SingletonQuiet ==
  /\ modState = [state |-> "unimported", importer |-> 0, face_detector |-> 0]
  /\ cls = [instance |-> 0, objects |-> 0, initRuns |-> 0]
  /\ spc = [t \in Threads |-> "idle"]
  /\ sret = [t \in Threads |-> 0]
  /\ sOverlap = FALSE

\* The rate limiter of the module, no call made yet.
LimiterQuiet ==
  /\ limiter = [max_requests |-> 10, window_seconds |-> 60]
  /\ requests = <<>>
  /\ clock = 0
  /\ rpc = [t \in Threads |-> "idle"]
  /\ rlocal = [t \in Threads |-> [current_time |-> 0, request_count |-> 0]]
  /\ accepted = <<>>

ConcQuiet == SingletonQuiet /\ LimiterQuiet

-----------------------------------------------------------------------------
(* One index instance, its operations run one at a time *)

Inst == {1, 2}

DefaultNames == {DefaultFamilies[i].name : i \in 1..Len(DefaultFamilies)}

\* The names add_sample is called with: a seed family and a name no seed has.
FamilyNames == {DefaultFamilies[1].name} \cup NewFamilyNames

\* The feature dictionaries passed to add_sample.
SampleFeatures ==
  UNION {[K -> {RatOfInt(v) : v \in SampleVals}] : K \in SUBSET SampleKeys}

\* What the file may hold when the index is constructed.
InitialFiles ==
  { MissingFile,
    [exists |-> TRUE, text |-> Encode(DefaultDb)],
    [exists |-> TRUE, text |-> <<>>],
    [exists |-> TRUE, text |-> <<Tok("open"), FamTok(DefaultFamilies[1])>>],
    [exists |-> TRUE, text |-> <<Tok("array")>>],
    [exists |-> TRUE, text |-> <<Tok("object")>>] }

NoArgs == [name |-> "", features |-> NoFeatures]

NoStreak == [name |-> "", features |-> NoFeatures, count |-> 0]

IndexInit ==
  /\ file \in InitialFiles
  /\ fsOk \in BOOLEAN
  /\ db = [i \in Inst |-> EmptyDb]
  /\ ipc = [i \in Inst |-> "none"]
  /\ woff = [i \in Inst |-> 0]
  /\ wbuf = [i \in Inst |-> <<>>]
  /\ lastOp = "none"
  /\ lastRet = "none"
  /\ lastArgs = NoArgs
  /\ preDb = EmptyDb
  /\ wrote = FALSE
  /\ history = [n \in FamilyNames |-> <<>>]
  /\ fsAlwaysOk = fsOk
  /\ streak = NoStreak
  /\ nCalls = 0
  /\ saves = [i \in Inst |-> 0]
  /\ overlapped = FALSE
  /\ BatchQuiet
  /\ FnQuiet
  /\ ConcQuiet

\* AttributionIndex(path): __init__, _load and, when _load falls back to
\* the defaults, _create_default_db with its _save.
Construct ==
  /\ ipc[1] = "none"
  /\ LET r == Load(file) IN
       /\ db' = [db EXCEPT ![1] = r.db]
       /\ file' = IF r.created_default THEN SaveWhole(file, r.db, fsOk) ELSE file
       /\ wrote' = (r.created_default /\ fsOk)
  /\ ipc' = [ipc EXCEPT ![1] = "idle"]
  /\ lastOp' = "construct"
  /\ lastRet' = "returned"
  /\ preDb' = db[1]
  /\ UNCHANGED <<fsOk, woff, wbuf, lastArgs, history, fsAlwaysOk, streak, nCalls,
                 saves, overlapped>>
  /\ UNCHANGED bvars
  /\ UNCHANGED cvars
  /\ UNCHANGED fvars

\* add_sample(family_name, features) on instance 1, with its _save.
IndexAddSample ==
  /\ ipc[1] = "idle"
  /\ nCalls < MaxCalls
  /\ \E family_name \in FamilyNames, features \in SampleFeatures :
       LET r == AddSample(db[1], family_name, features) IN
         /\ db' = [db EXCEPT ![1] = r.db]
         /\ file' = IF r.save THEN SaveWhole(file, r.db, fsOk) ELSE file
         /\ wrote' = (r.save /\ fsOk)
         /\ lastRet' = r.ret
         /\ lastArgs' = [name |-> family_name, features |-> features]
         /\ history' =
              IF r.effect = "none" THEN history
              ELSE [history EXCEPT ![family_name] = Append(@, features)]
         /\ streak' =
              IF /\ streak.count > 0
                 /\ streak.name = family_name
                 /\ streak.features = features
                THEN [streak EXCEPT !.count = @ + 1]
              ELSE IF db[1].has_families /\ FindFamily(db[1].families, family_name) = 0
                THEN [name |-> family_name, features |-> features, count |-> 1]
              ELSE NoStreak
  /\ lastOp' = "add_sample"
  /\ preDb' = db[1]
  /\ nCalls' = nCalls + 1
  /\ UNCHANGED <<fsOk, ipc, woff, wbuf, fsAlwaysOk, saves, overlapped>>
  /\ UNCHANGED bvars
  /\ UNCHANGED cvars
  /\ UNCHANGED fvars

\* The environment: the file system starts or stops accepting writes.
ToggleFs ==
  /\ fsOk' = ~fsOk
  /\ fsAlwaysOk' = IF ipc[1] = "none" THEN fsOk' ELSE FALSE
  /\ UNCHANGED <<file, db, ipc, woff, wbuf, lastOp, lastRet, lastArgs, preDb,
                 wrote, history, streak, nCalls, saves, overlapped>>
  /\ UNCHANGED bvars
  /\ UNCHANGED cvars
  /\ UNCHANGED fvars

IndexNext == Construct \/ IndexAddSample \/ ToggleFs

SpecIndex == IndexInit /\ [][IndexNext]_vars

-----------------------------------------------------------------------------
(* Claims about add_sample and construction, checked under SpecIndex *)

\* The family named name in database d (NoFamily when there is none).
FamilyOf(d, name) ==
  IF d.has_families /\ FindFamily(d.families, name) # 0
    THEN d.families[FindFamily(d.families, name)]
    ELSE NoFamily

HasFamily(d, name) == d.has_families /\ FindFamily(d.families, name) # 0

\* C1: add_sample with a name that matches no existing family appends a new
\* family whose features_mean equals the features and whose sample_count is
\* 1, and returns success.
C1_NewFamilyAppended ==
  (lastOp = "add_sample" /\ preDb.has_families
     /\ FindFamily(preDb.families, lastArgs.name) = 0)
  => /\ lastRet = "True"
     /\ Len(db[1].families) = Len(preDb.families) + 1
     /\ SubSeq(db[1].families, 1, Len(preDb.families)) = preDb.families
     /\ db[1].families[Len(db[1].families)].name = lastArgs.name
     /\ db[1].families[Len(db[1].families)].features_mean = lastArgs.features
     /\ db[1].families[Len(db[1].families)].sample_count = 1

\* C2: starting without a family named F, k >= 1 consecutive add_sample(F, v)
\* calls with the same v leave family F with features_mean = v and
\* sample_count = k.
C2_ConstantSamplesKeepMean ==
  streak.count >= 1
  => /\ HasFamily(db[1], streak.name)
     /\ FamilyOf(db[1], streak.name).features_mean = streak.features
     /\ FamilyOf(db[1], streak.name).sample_count = streak.count

\* The samples of a history that carry key k.
RECURSIVE Contributions(_, _)
Contributions(h, k) ==
  IF h = <<>> THEN <<>>
  ELSE IF k \in DOMAIN Head(h)
    THEN <<Head(h)[k]>> \o Contributions(Tail(h), k)
    ELSE Contributions(Tail(h), k)

RECURSIVE RatSum(_)
RatSum(vs) == IF vs = <<>> THEN <<0, 1>> ELSE RatAdd(Head(vs), RatSum(Tail(vs)))

ArithmeticMean(vs) == RatDivInt(RatSum(vs), Len(vs))

\* C3: after any sequence of add_sample calls contributing samples to one
\* family, every key of its features_mean equals the arithmetic mean of the
\* values contributed for that key.
C3_MeanEqualsFullRecompute ==
  \A n \in FamilyNames :
    (history[n] # <<>> /\ HasFamily(db[1], n))
    => \A k \in DOMAIN FamilyOf(db[1], n).features_mean :
         Contributions(history[n], k) # <<>>
         => FamilyOf(db[1], n).features_mean[k]
              = ArithmeticMean(Contributions(history[n], k))

\* C4: with one index instance and a file system that accepts writes, once
\* an add_sample call has returned the database stored in the file equals
\* the database in memory.
C4_FileEqualsMemoryAfterAddSample ==
  (lastOp = "add_sample" /\ fsAlwaysOk)
  => /\ file.exists
     /\ Parse(file.text).ok
     /\ Parse(file.text).is_dict
     /\ Parse(file.text).value = db[1]

\* A file that holds a database document: a JSON object with its families.
ValidDatabaseFile(f) ==
  /\ f.exists
  /\ Parse(f.text).ok
  /\ Parse(f.text).is_dict
  /\ Parse(f.text).value.has_families

\* C6: construction never raises, and when the file is missing or does not
\* hold a valid database document the database in memory is exactly the
\* three default families with sample_count 0.
C6_InvalidFileYieldsDefaults ==
  [][(ipc[1] = "none" /\ ipc'[1] = "idle")
       => /\ lastRet' = "returned"
          /\ (~ValidDatabaseFile(file) => db'[1] = DefaultDb)]_vars

-----------------------------------------------------------------------------
(* The stages of the per-image pipeline *)

FeatureKeys == {"ela_mean", "fft_high_ratio", "lap_var", "jpeg_score"}

\* An image: malformed when the imaging library fails on every operation on
\* it; face tells whether the face detector would find a face in it; fails
\* is the set of feature extractors that raise on it, named by their key.
GoodFace == [malformed |-> FALSE, face |-> TRUE, fails |-> {}]

GoodNoFace == [malformed |-> FALSE, face |-> FALSE, fails |-> {}]

Malformed == [malformed |-> TRUE, face |-> FALSE, fails |-> FeatureKeys]

Images == {GoodFace, GoodNoFace, Malformed}

\* detect_largest_face: (face_im, found, confidence); face_im is the crop
\* when a face is found, the image itself otherwise.  Every exception is
\* caught inside, so raised is FALSE on every path.
DetectLargestFace(im) ==
  IF ~faceAvailable
    THEN [raised |-> FALSE, face_im |-> [im |-> im, crop |-> FALSE],
          found |-> FALSE, conf |-> <<0, 1>>]
  ELSE IF im.malformed
    THEN [raised |-> FALSE, face_im |-> [im |-> im, crop |-> FALSE],
          found |-> FALSE, conf |-> <<0, 1>>]
  ELSE IF ~im.face
    THEN [raised |-> FALSE, face_im |-> [im |-> im, crop |-> FALSE],
          found |-> FALSE, conf |-> <<0, 1>>]
  ELSE [raised |-> FALSE, face_im |-> [im |-> im, crop |-> TRUE],
        found |-> TRUE, conf |-> Rat(95, 100)]

DefaultFeatures ==
  [k \in FeatureKeys |->
     CASE k = "ela_mean"       -> Rat(0, 1)
       [] k = "fft_high_ratio" -> Rat(5, 10)
       [] k = "lap_var"        -> Rat(100, 1)
       [] k = "jpeg_score"     -> Rat(5, 10)]

\* What the four extractors compute on a well-formed image: one vector for
\* a face crop, one for a whole image.
ExtractorOutputs(face_im) ==
  [k \in FeatureKeys |->
     CASE k = "ela_mean"       -> IF face_im.crop THEN Rat(15, 1) ELSE Rat(6, 1)
       [] k = "fft_high_ratio" -> IF face_im.crop THEN Rat(7, 10) ELSE Rat(6, 10)
       [] k = "lap_var"        -> IF face_im.crop THEN Rat(150, 1) ELSE Rat(90, 1)
       [] k = "jpeg_score"     -> Rat(4, 10)]

\* A fallback key by key: the default only where the extractor raised.
FallbackPerKey(computed, failed) ==
  [k \in FeatureKeys |-> IF k \in failed THEN DefaultFeatures[k] ELSE computed[k]]

\* The except branch of features: when any extractor raised, the whole
\* default vector is returned, otherwise the computed one.
FallbackVector(computed, failed) ==
  IF failed # {} THEN DefaultFeatures ELSE computed

\* features without its try/except: an extractor's exception escapes.
FeaturesUnguarded(face_im) ==
  IF face_im.im.fails # {}
    THEN [raised |-> TRUE, value |-> NoFeatures]
    ELSE [raised |-> FALSE, value |-> ExtractorOutputs(face_im)]

\* HeuristicDetector.features: the extractors' values, or the default
\* vector when any of them raises.
Features(face_im) ==
  [raised |-> FALSE,
   value |-> FallbackVector(ExtractorOutputs(face_im), face_im.im.fails)]

HEURISTIC_WEIGHTS ==
  [k \in {"fft_weight", "ela_weight", "lap_weight", "jpeg_weight", "threshold",
          "steepness"} |->
     CASE k = "fft_weight"  -> Rat(9, 10)
       [] k = "ela_weight"  -> Rat(6, 10)
       [] k = "lap_weight"  -> Rat(2, 10)
       [] k = "jpeg_weight" -> Rat(15, 100)
       [] k = "threshold"   -> Rat(7, 10)
       [] k = "steepness"   -> Rat(4, 1)]

\* A feature value that is not a number (None, a string): a pair with
\* denominator 0.
NonNumeric == <<0, 0>>

IsNumeric(v) == v[2] # 0

\* The expression for x raises: KeyError for a missing key, TypeError for
\* a value that is not a number.
ScoreRaises(feats) ==
  \/ ~(FeatureKeys \subseteq DOMAIN feats)
  \/ \E k \in FeatureKeys : ~IsNumeric(feats[k])

\* steepness * (x - threshold), the argument of the sigmoid.
Logit(feats) ==
  LET w == HEURISTIC_WEIGHTS
      x == RatSub(
             RatAdd(RatAdd(RatMul(w["fft_weight"], feats["fft_high_ratio"]),
                           RatMul(w["ela_weight"], RatDivInt(feats["ela_mean"], 50))),
                    RatMul(w["lap_weight"], RatDivInt(feats["lap_var"], 200))),
             RatMul(w["jpeg_weight"], feats["jpeg_score"]))
  IN  RatMul(w["steepness"], RatSub(x, w["threshold"]))

\* score without its try/except.
ScoreUnguarded(feats) ==
  IF ScoreRaises(feats)
    THEN [raised |-> TRUE, neutral |-> FALSE, logit |-> <<0, 1>>]
    ELSE [raised |-> FALSE, neutral |-> FALSE, logit |-> Logit(feats)]

\* HeuristicDetector.score: the score is sigmoid(logit) clipped to [0, 1];
\* the logit is computed exactly and the sigmoid is left applied to it.
\* neutral is TRUE when the expression raises and 0.5 is returned.
Score(feats) ==
  IF ScoreRaises(feats)
    THEN [raised |-> FALSE, neutral |-> TRUE, logit |-> <<0, 1>>]
    ELSE [raised |-> FALSE, neutral |-> FALSE, logit |-> Logit(feats)]

\* HeuristicDetector.analyze
Analyze(face_im) ==
  LET f == Features(face_im)
      sc == Score(f.value)
  IN  [raised |-> f.raised \/ sc.raised, score |-> sc, features |-> f.value]

\* TorchDetector.predict
TorchPredict(face_im) ==
  IF ~torchAvailable
    THEN [raised |-> FALSE, available |-> FALSE, probs |-> <<>>]
  ELSE IF face_im.im.malformed
    THEN [raised |-> FALSE, available |-> FALSE, probs |-> <<>>]
  ELSE [raised |-> FALSE, available |-> TRUE, probs |-> <<Rat(3, 10), Rat(7, 10)>>]

NoScore == [raised |-> FALSE, neutral |-> FALSE, logit |-> <<0, 1>>]

\* The dictionary returned by the except branch (the fields the success
\* dictionary adds are left at their empty values).
FailureResult(image_id, err) ==
  [id |-> image_id, success |-> FALSE, error |-> err,
   face_found |-> FALSE, face_confidence |-> <<0, 1>>,
   heuristic_score |-> NoScore, features |-> NoFeatures,
   torch_available |-> FALSE, torch_probs |-> <<>>]

\* BatchProcessor._process_single_image
ProcessSingleImage(image_data) ==
  LET image_id == image_data[1]
      image == image_data[2]
      face == DetectLargestFace(image)
      heuristic_result == Analyze(face.face_im)
      torch_result == TorchPredict(face.face_im)
  IN  IF face.raised \/ heuristic_result.raised \/ torch_result.raised
        THEN FailureResult(image_id, "pipeline_error")
        ELSE [id |-> image_id, success |-> TRUE, error |-> "",
              face_found |-> face.found, face_confidence |-> face.conf,
              heuristic_score |-> heuristic_result.score,
              features |-> heuristic_result.features,
              torch_available |-> torch_result.available,
              torch_probs |-> torch_result.probs]

\* The calls _process_single_image makes on one image, in order, up to its
\* return statement or its except branch.
PipelineStages(image_data) ==
  LET image == image_data[2]
      face == DetectLargestFace(image)
      feats == Features(face.face_im)
      sc == Score(feats.value)
      torch_result == TorchPredict(face.face_im)
  IN  <<"detect_largest_face">> \o
      (IF face.raised THEN <<"except">>
       ELSE <<"features">> \o
         (IF feats.raised THEN <<"except">>
          ELSE <<"score">> \o
            (IF sc.raised THEN <<"except">>
             ELSE <<"predict">> \o
               (IF torch_result.raised THEN <<"except">> ELSE <<"return">>))))

-----------------------------------------------------------------------------
(* process_batch on one BatchProcessor and its thread pool *)

\* A future: stages records the calls its work item made.
Pending == [done |-> FALSE, exception |-> FALSE, value |-> FailureResult(0, ""),
            stages |-> <<>>]

ImageLists == UNION {[1..n -> Images] : n \in 0..MaxItems}

\* A pool that starts a thread for every queued item.
PoolAlwaysHasFreeThread(busy) == TRUE

\* ThreadPoolExecutor(max_workers): a queued item starts only on one of
\* at most max_workers threads.
PoolHasFreeThread(busy) == Cardinality(busy) < MaxWorkers

\* Results collected as the futures complete.
GatherAsCompleted(futures, completion) ==
  [i \in 1..Len(futures) |-> futures[completion[i]]]

\* asyncio.gather: the results in the order of the awaitables passed in.
GatherResults(futures, completion) == futures

\* The loop over the gathered results that builds processed_results.
ProcessedResults(ids, gathered) ==
  [i \in 1..Len(gathered) |->
     IF gathered[i].exception
       THEN FailureResult(ids[i], "exception")
       ELSE gathered[i].value]

IndexQuiet ==
  /\ file = MissingFile
  /\ fsOk = TRUE
  /\ db = [i \in Inst |-> EmptyDb]
  /\ ipc = [i \in Inst |-> "none"]
  /\ woff = [i \in Inst |-> 0]
  /\ wbuf = [i \in Inst |-> <<>>]
  /\ lastOp = "none"
  /\ lastRet = "none"
  /\ lastArgs = NoArgs
  /\ preDb = EmptyDb
  /\ wrote = FALSE
  /\ history = [n \in FamilyNames |-> <<>>]
  /\ fsAlwaysOk = TRUE
  /\ streak = NoStreak
  /\ nCalls = 0
  /\ saves = [i \in Inst |-> 0]
  /\ overlapped = FALSE

BatchInit ==
  /\ IndexQuiet
  /\ faceAvailable \in BOOLEAN
  /\ torchAvailable \in BOOLEAN
  /\ calls = [c \in Calls |-> NoCall]
  /\ workQueue = <<>>
  /\ running = {}
  /\ finished = [c \in Calls |-> <<>>]
  /\ nextId = 1
  /\ FnQuiet
  /\ ConcQuiet

\* process_batch up to the await: the identifiers are assigned and every
\* image is submitted to the executor.
ProcessBatch(c) ==
  /\ calls[c].state = "none"
  /\ \A b \in 1..(c - 1) : calls[b].state # "none"
  /\ \E images \in ImageLists :
       /\ nextId - 1 + Len(images) <= MaxItems
       /\ IF images = <<>>
            THEN /\ calls' = [calls EXCEPT ![c].state = "returned"]
                 /\ UNCHANGED <<workQueue, nextId>>
            ELSE /\ calls' = [calls EXCEPT ![c] =
                      [state |-> "waiting",
                       images |-> images,
                       ids |-> [i \in 1..Len(images) |-> nextId + i - 1],
                       futures |-> [i \in 1..Len(images) |-> Pending],
                       results |-> <<>>]]
                 /\ workQueue' = workQueue \o [i \in 1..Len(images) |-> <<c, i>>]
                 /\ nextId' = nextId + Len(images)
  /\ UNCHANGED <<faceAvailable, torchAvailable, running, finished>>
  /\ UNCHANGED ivars
  /\ UNCHANGED cvars
  /\ UNCHANGED fvars

\* A pool thread takes the next work item from the queue.
WorkerTake ==
  /\ workQueue # <<>>
  /\ PoolHasFreeThread(running)
  /\ running' = running \cup {Head(workQueue)}
  /\ workQueue' = Tail(workQueue)
  /\ UNCHANGED <<faceAvailable, torchAvailable, calls, finished, nextId>>
  /\ UNCHANGED ivars
  /\ UNCHANGED cvars
  /\ UNCHANGED fvars

\* A pool thread runs _process_single_image to its end and sets the future.
WorkerFinish(item) ==
  /\ item \in running
  /\ LET c == item[1]
         i == item[2]
         r == ProcessSingleImage(<<calls[c].ids[i], calls[c].images[i]>>)
     IN  /\ calls' = [calls EXCEPT ![c].futures[i] =
                        [done |-> TRUE, exception |-> FALSE, value |-> r,
                         stages |-> PipelineStages(<<calls[c].ids[i],
                                                     calls[c].images[i]>>)]]
         /\ finished' = [finished EXCEPT ![c] = Append(@, i)]
  /\ running' = running \ {item}
  /\ UNCHANGED <<faceAvailable, torchAvailable, workQueue, nextId>>
  /\ UNCHANGED ivars
  /\ UNCHANGED cvars
  /\ UNCHANGED fvars

\* A wait that ends with the first future that is done.
FirstDone(futures) == \E i \in 1..Len(futures) : futures[i].done

\* asyncio.gather completes when every awaitable passed in is done.
AllDone(futures) == \A i \in 1..Len(futures) : futures[i].done

\* The await of gather returns once every future is done; process_batch
\* builds processed_results and returns.
GatherReturn(c) ==
  /\ calls[c].state = "waiting"
  /\ AllDone(calls[c].futures)
  /\ calls' = [calls EXCEPT
       ![c].state = "returned",
       ![c].results = ProcessedResults(calls[c].ids,
                         GatherResults(calls[c].futures, finished[c]))]
  /\ UNCHANGED <<faceAvailable, torchAvailable, workQueue, running, finished, nextId>>
  /\ UNCHANGED ivars
  /\ UNCHANGED cvars
  /\ UNCHANGED fvars

BatchNext ==
  \/ \E c \in Calls : ProcessBatch(c)
  \/ WorkerTake
  \/ \E item \in running : WorkerFinish(item)
  \/ \E c \in Calls : GatherReturn(c)

SpecBatch == BatchInit /\ [][BatchNext]_vars

-----------------------------------------------------------------------------
(* Claims about process_batch, checked under SpecBatch *)

MalformedItems(c) ==
  {j \in 1..Len(calls[c].images) : calls[c].images[j].malformed}

\* C7 (as stated): in a batch of N images where item j is malformed,
\* process_batch returns N results in which item j has success = false with
\* an error and every other item has success = true.
C7_MalformedItemFails ==
  \A c \in Calls :
    (calls[c].state = "returned" /\ Cardinality(MalformedItems(c)) = 1)
    => /\ Len(calls[c].results) = Len(calls[c].images)
       /\ \A j \in 1..Len(calls[c].results) :
            IF j \in MalformedItems(c)
              THEN ~calls[c].results[j].success /\ calls[c].results[j].error # ""
              ELSE calls[c].results[j].success

\* C7 (amended): in a batch of N images where item j is malformed,
\* process_batch returns N results in which item j has success = true and
\* carries the default feature vector with no face found, and every other
\* item has success = true with the result its own image yields: the
\* failure inside item j changes no sibling's result.
C7_MalformedItemDegrades ==
  \A c \in Calls :
    (calls[c].state = "returned" /\ Cardinality(MalformedItems(c)) = 1)
    => /\ Len(calls[c].results) = Len(calls[c].images)
       /\ \A j \in 1..Len(calls[c].results) :
            /\ calls[c].results[j].success
            /\ calls[c].results[j].error = ""
            /\ IF j \in MalformedItems(c)
                 THEN /\ calls[c].results[j].features = DefaultFeatures
                      /\ ~calls[c].results[j].face_found
                      /\ ~calls[c].results[j].torch_available
                 ELSE calls[c].results[j] =
                        ProcessSingleImage(<<calls[c].ids[j], calls[c].images[j]>>)

\* A batch of two images, the first malformed and the second with a face
\* the detector finds, has returned.
C7_Witness ==
  \E c \in Calls :
    /\ calls[c].state = "returned"
    /\ calls[c].images = <<Malformed, GoodFace>>
    /\ faceAvailable
    /\ torchAvailable
    /\ calls[c].results[2].face_found

\* C8: process_batch on N images returns exactly N results and the i-th
\* result carries the identifier assigned to the i-th input image, whatever
\* order the worker threads finish in.
C8_ResultsInInputOrder ==
  \A c \in Calls :
    calls[c].state = "returned"
    => /\ Len(calls[c].results) = Len(calls[c].images)
       /\ \A i \in 1..Len(calls[c].results) :
            calls[c].results[i].id = calls[c].ids[i]

\* A batch has returned whose second item finished before its first.
C8_Witness ==
  \E c \in Calls :
    /\ calls[c].state = "returned"
    /\ Len(calls[c].images) = 2
    /\ finished[c] = <<2, 1>>

\* C9: never more than max_workers item pipelines of one BatchProcessor
\* execute at the same time, over all process_batch calls in flight.
C9_AtMostMaxWorkersRunning ==
  Cardinality(running) <= MaxWorkers

\* The pool is full with items of two different calls and more are queued.
C9_Witness ==
  /\ Cardinality(running) = MaxWorkers
  /\ workQueue # <<>>
  /\ \E a \in running, b \in running : a[1] # b[1]
  /\ \A c \in Calls : calls[c].state = "waiting"

\* Stage a comes before stage b in the sequence st.
Before(st, a, b) ==
  \E i, j \in 1..Len(st) : i < j /\ st[i] = a /\ st[j] = b

\* C16: for every item of a batch that succeeds, the item's pipeline runs
\* face detection, then feature extraction and scoring, then an attribution
\* index query, before its result is assembled.
C16_PipelineQueriesAttribution ==
  \A c \in Calls :
    calls[c].state = "returned"
    => \A i \in 1..Len(calls[c].results) :
         calls[c].results[i].success
         => LET st == calls[c].futures[i].stages
            IN  /\ Before(st, "detect_largest_face", "features")
                /\ Before(st, "features", "score")
                /\ Before(st, "score", "match")
                /\ Before(st, "match", "return")

\* The process_batch calls and the work items of the model.
AllItems == Calls \X (1..MaxItems)

\* A step of the pool or of the event loop on work already submitted.
BatchProgress ==
  \/ WorkerTake
  \/ \E item \in AllItems : WorkerFinish(item)
  \/ \E c \in Calls : GatherReturn(c)

\* The guards of BatchProgress: a queued item and a free thread, a running
\* item, or a waiting call whose futures are all done.  This is the state
\* predicate ENABLED <<BatchProgress>>_vars, since each of the three steps
\* changes workQueue, running or calls.
BatchCanProgress ==
  \/ workQueue # <<>> /\ PoolHasFreeThread(running)
  \/ running # {}
  \/ \E c \in Calls : calls[c].state = "waiting" /\ AllDone(calls[c].futures)

\* Weak fairness of BatchProgress, with its enabling condition written out:
\* while submitted work can make a step, a step is made.  The pool's threads
\* run their items to the end (each pipeline terminates) and the event loop
\* resumes a process_batch call whose futures are all done.
SpecBatchLive ==
  SpecBatch /\ ([]<>(~BatchCanProgress) \/ []<><<BatchProgress>>_vars)

\* C17: every process_batch call eventually returns with a result for
\* every submitted item, also when the number of items exceeds max_workers,
\* provided each item's pipeline terminates.
C17_EveryBatchReturns ==
  \A c \in Calls :
    (calls[c].state = "waiting")
    ~> (/\ calls[c].state = "returned"
        /\ Len(calls[c].results) = Len(calls[c].images)
        /\ \A i \in 1..Len(calls[c].results) :
             calls[c].results[i] = calls[c].futures[i].value
        /\ \A i \in 1..Len(calls[c].futures) : calls[c].futures[i].done)

\* A call with more items than the pool has threads has returned.
C17_Witness ==
  \E c \in Calls :
    /\ calls[c].state = "returned"
    /\ Len(calls[c].images) > MaxWorkers
    /\ Len(calls[c].results) = Len(calls[c].images)

-----------------------------------------------------------------------------
(* Two index instances on one file, _load and _save taken step by step *)

\* What the file may hold when the instances are constructed: as above,
\* and a document followed by the tail of a longer one.
SaveInitialFiles ==
  InitialFiles \cup
    { [exists |-> TRUE, text |-> Encode(DefaultDb) \o <<Tok("close")>>] }

SaveInit ==
  /\ file \in SaveInitialFiles
  /\ fsOk = TRUE
  /\ db = [i \in Inst |-> EmptyDb]
  /\ ipc = [i \in Inst |-> "none"]
  /\ woff = [i \in Inst |-> 0]
  /\ wbuf = [i \in Inst |-> <<>>]
  /\ lastOp = "none"
  /\ lastRet = "none"
  /\ lastArgs = NoArgs
  /\ preDb = EmptyDb
  /\ wrote = FALSE
  /\ history = [n \in FamilyNames |-> <<>>]
  /\ fsAlwaysOk = TRUE
  /\ streak = NoStreak
  /\ nCalls = 0
  /\ saves = [i \in Inst |-> 0]
  /\ overlapped = FALSE
  /\ BatchQuiet
  /\ FnQuiet
  /\ ConcQuiet

\* __init__ and _load of instance i: the file is read in one piece; when
\* _load falls back to the defaults the instance goes on to _save.
ConstructLoad(i) ==
  /\ ipc[i] = "none"
  /\ LET r == Load(file) IN
       /\ db' = [db EXCEPT ![i] = r.db]
       /\ ipc' = [ipc EXCEPT ![i] = IF r.created_default THEN "save_open" ELSE "idle"]
  /\ UNCHANGED <<file, fsOk, woff, wbuf, lastOp, lastRet, lastArgs, preDb, wrote,
                 history, fsAlwaysOk, streak, nCalls, saves, overlapped>>
  /\ UNCHANGED bvars
  /\ UNCHANGED cvars
  /\ UNCHANGED fvars

\* add_sample of instance i up to its call of _save.
AddSampleStart(i) ==
  /\ ipc[i] = "idle"
  /\ nCalls < MaxCalls
  /\ \E family_name \in FamilyNames, features \in SampleFeatures :
       LET r == AddSample(db[i], family_name, features) IN
         /\ db' = [db EXCEPT ![i] = r.db]
         /\ ipc' = [ipc EXCEPT ![i] = IF r.save THEN "save_open" ELSE "idle"]
  /\ nCalls' = nCalls + 1
  /\ UNCHANGED <<file, fsOk, woff, wbuf, lastOp, lastRet, lastArgs, preDb, wrote,
                 history, fsAlwaysOk, streak, saves, overlapped>>
  /\ UNCHANGED bvars
  /\ UNCHANGED cvars
  /\ UNCHANGED fvars

\* _save: makedirs and open(path, "w").  When the file system refuses, the
\* exception is swallowed and _save is over.
SaveOpen(i) ==
  /\ ipc[i] = "save_open"
  /\ IF fsOk
       THEN /\ file' = OpenTruncate(file)
            /\ woff' = [woff EXCEPT ![i] = 0]
            /\ wbuf' = [wbuf EXCEPT ![i] = Encode(db[i])]
            /\ ipc' = [ipc EXCEPT ![i] = "save_write"]
            /\ overlapped' = (overlapped \/ \E j \in Inst \ {i} : ipc[j] = "save_write")
       ELSE /\ ipc' = [ipc EXCEPT ![i] = "idle"]
            /\ UNCHANGED <<file, woff, wbuf, overlapped>>
  /\ UNCHANGED <<fsOk, db, lastOp, lastRet, lastArgs, preDb, wrote, history,
                 fsAlwaysOk, streak, nCalls, saves>>
  /\ UNCHANGED bvars
  /\ UNCHANGED cvars
  /\ UNCHANGED fvars

\* _save: json.dump writes the next piece of the document at the handle's
\* own offset.
SaveWrite(i) ==
  /\ ipc[i] = "save_write"
  /\ woff[i] < Len(wbuf[i])
  /\ file' = WriteAt(file, woff[i], wbuf[i][woff[i] + 1])
  /\ woff' = [woff EXCEPT ![i] = @ + 1]
  /\ UNCHANGED <<fsOk, db, ipc, wbuf, lastOp, lastRet, lastArgs, preDb, wrote,
                 history, fsAlwaysOk, streak, nCalls, saves, overlapped>>
  /\ UNCHANGED bvars
  /\ UNCHANGED cvars
  /\ UNCHANGED fvars

\* _save: the with block closes the file.
SaveClose(i) ==
  /\ ipc[i] = "save_write"
  /\ woff[i] = Len(wbuf[i])
  /\ ipc' = [ipc EXCEPT ![i] = "idle"]
  /\ saves' = [saves EXCEPT ![i] = @ + 1]
  /\ UNCHANGED <<file, fsOk, db, woff, wbuf, lastOp, lastRet, lastArgs, preDb,
                 wrote, history, fsAlwaysOk, streak, nCalls, overlapped>>
  /\ UNCHANGED bvars
  /\ UNCHANGED cvars
  /\ UNCHANGED fvars

\* The environment: the file system starts or stops accepting writes.
SaveToggleFs ==
  /\ fsOk' = ~fsOk
  /\ fsAlwaysOk' = FALSE
  /\ UNCHANGED <<file, db, ipc, woff, wbuf, lastOp, lastRet, lastArgs, preDb,
                 wrote, history, streak, nCalls, saves, overlapped>>
  /\ UNCHANGED bvars
  /\ UNCHANGED cvars
  /\ UNCHANGED fvars

SaveNext ==
  \/ \E i \in Inst : ConstructLoad(i)
  \/ \E i \in Inst : AddSampleStart(i)
  \/ \E i \in Inst : SaveOpen(i)
  \/ \E i \in Inst : SaveWrite(i)
  \/ \E i \in Inst : SaveClose(i)
  \/ SaveToggleFs

SpecSave == SaveInit /\ [][SaveNext]_vars

-----------------------------------------------------------------------------
(* match *)

RatLess(p, q) == p[1] * q[2] < q[1] * p[2]

RatInv(p) == Rat(p[2], p[1])

Min(a, b) == IF a <= b THEN a ELSE b

Max(a, b) == IF a >= b THEN a ELSE b

RECURSIVE SumOver(_, _)
SumOver(f, S) ==
  IF S = {} THEN <<0, 1>>
  ELSE LET k == CHOOSE x \in S : TRUE
       IN  RatAdd(f[k], SumOver(f, S \ {k}))

\* common_keys = [k for k in family_features.keys() if k in feats]
CommonKeys(family_features, feats) ==
  {k \in DOMAIN family_features : k \in DOMAIN feats}

\* The similarity dot_product / (norm_query * norm_family), kept exact: the
\* dot product and the squares of the two norms over the common keys.  The
\* value it stands for is dot / ((sqrt(query_sq) + 1e-8) * (sqrt(family_sq)
\* + 1e-8)).
Similarity(feats, family_features, common_keys) ==
  [dot_product |->
     SumOver([k \in common_keys |-> RatMul(feats[k], family_features[k])], common_keys),
   query_sq |->
     SumOver([k \in common_keys |-> RatMul(feats[k], feats[k])], common_keys),
   family_sq |->
     SumOver([k \in common_keys |-> RatMul(family_features[k], family_features[k])],
             common_keys)]

\* The cosine without the 1e-8 terms, squared and carrying its sign.
SignedSquare(s) ==
  IF s.dot_product[1] = 0 THEN <<0, 1>>
  ELSE RatMul(RatMul(s.dot_product, <<Abs(s.dot_product[1]), s.dot_product[2]>>),
              RatInv(RatMul(s.query_sq, s.family_sq)))

\* The two squared norms of a similarity, the smaller first.
NormPair(s) ==
  IF RatLess(s.family_sq, s.query_sq) THEN <<s.family_sq, s.query_sq>>
  ELSE <<s.query_sq, s.family_sq>>

\* For two similarities of equal non-zero cosine the 1e-8 terms decide: the
\* value is the cosine divided by (1 + 1e-8/norm_query)(1 + 1e-8/norm_family),
\* so larger norms give the larger magnitude.  Decided is FALSE when one
\* norm is larger and the other smaller.
CompareMagnitude(a, b) ==
  LET p == NormPair(a)
      q == NormPair(b)
  IN  IF p = q THEN [decided |-> TRUE, cmp |-> 0]
      ELSE IF ~RatLess(q[1], p[1]) /\ ~RatLess(q[2], p[2])
        THEN [decided |-> TRUE, cmp |-> -1]
      ELSE IF ~RatLess(p[1], q[1]) /\ ~RatLess(p[2], q[2])
        THEN [decided |-> TRUE, cmp |-> 1]
      ELSE [decided |-> FALSE, cmp |-> 0]

\* The order of two similarity values: -1, 0 or 1 as a < b, a = b, a > b.
CompareSimilarity(a, b) ==
  LET x == SignedSquare(a)
      y == SignedSquare(b)
  IN  IF RatLess(x, y) THEN -1
      ELSE IF RatLess(y, x) THEN 1
      ELSE IF x[1] = 0 THEN 0
      ELSE IF x[1] > 0 THEN CompareMagnitude(a, b).cmp
      ELSE 0 - CompareMagnitude(a, b).cmp

\* A loop that scores every family.
NeverSkips(common_keys) == FALSE

\* if not common_keys: continue
SkipFamily(common_keys) == common_keys = {}

\* The loop over the families: one (name, similarity) per family scored.
RECURSIVE ScoreFamilies(_, _)
ScoreFamilies(fams, feats) ==
  IF fams = <<>> THEN <<>>
  ELSE LET family == Head(fams)
           common_keys == CommonKeys(family.features_mean, feats)
       IN  (IF SkipFamily(common_keys) THEN <<>>
            ELSE << <<family.name,
                      Similarity(feats, family.features_mean, common_keys)>> >>)
           \o ScoreFamilies(Tail(fams), feats)

\* An insertion that puts x ahead of the entries of equal similarity.
InsertBeforeEqual(sorted, x) ==
  LET n == Cardinality({i \in 1..Len(sorted) : CompareSimilarity(sorted[i][2], x[2]) > 0})
  IN  SubSeq(sorted, 1, n) \o <<x>> \o SubSeq(sorted, n + 1, Len(sorted))

\* x is placed after every entry whose similarity is not smaller.
InsertBySimilarity(sorted, x) ==
  LET n == Cardinality({i \in 1..Len(sorted) : CompareSimilarity(sorted[i][2], x[2]) >= 0})
  IN  SubSeq(sorted, 1, n) \o <<x>> \o SubSeq(sorted, n + 1, Len(sorted))

\* results.sort(key=lambda x: x[1], reverse=True): a stable sort, entries of
\* equal key keep their order.
RECURSIVE SortBySimilarity(_)
SortBySimilarity(results) ==
  IF results = <<>> THEN <<>>
  ELSE InsertBySimilarity(SortBySimilarity(SubSeq(results, 1, Len(results) - 1)),
                          results[Len(results)])

\* results[:topk]
SliceTo(results, topk) ==
  SubSeq(results, 1, IF topk >= 0 THEN Min(topk, Len(results))
                     ELSE Max(Len(results) + topk, 0))

\* AttributionIndex.match: results is the list before the sort, top what is
\* returned.
Match(d, feats, topk) ==
  IF DOMAIN feats = {}
    THEN [results |-> <<>>, top |-> <<>>]
    ELSE LET results == ScoreFamilies(IF d.has_families THEN d.families ELSE <<>>, feats)
         IN  [results |-> results, top |-> SliceTo(SortBySimilarity(results), topk)]

-----------------------------------------------------------------------------
(* accept_image *)

FACE_CONFIDENCE_THRESHOLD == Rat(90, 100)

QUALITY_MIN_SIDE == 224

\* A note: the literal text of the string and the values formatted after
\* it.  "no_face_found" has no value; f"min_side<{min_side}" is the literal
\* "min_side<" followed by the value of min_side.
Note(literal, args) == [literal |-> literal, args |-> args]

\* A size test on the longer side.
MaxSideOk(width, height, min_side) == Max(width, height) >= min_side

\* min_side_ok = min(width, height) >= min_side
MinSideOk(width, height, min_side) == Min(width, height) >= min_side

\* A confidence test that does not look at face_found.
LowConfidenceAlone(face_found, face_conf) ==
  RatLess(face_conf, FACE_CONFIDENCE_THRESHOLD)

\* if face_found and face_conf < FACE_CONFIDENCE_THRESHOLD
LowConfidenceFace(face_found, face_conf) ==
  face_found /\ RatLess(face_conf, FACE_CONFIDENCE_THRESHOLD)

\* accept_image; min_side_arg is <<>> for None and <<n>> for the value n.
AcceptImage(face_found, face_conf, width, height, min_side_arg) ==
  LET min_side == IF min_side_arg = <<>> THEN QUALITY_MIN_SIDE ELSE min_side_arg[1]
      min_side_ok == MinSideOk(width, height, min_side)
      notes ==
        (IF ~min_side_ok THEN <<Note("min_side<", <<RatOfInt(min_side)>>)>> ELSE <<>>)
        \o (IF ~face_found THEN <<Note("no_face_found", <<>>)>> ELSE <<>>)
        \o (IF LowConfidenceFace(face_found, face_conf)
              THEN <<Note("low_face_conf<", <<FACE_CONFIDENCE_THRESHOLD>>)>>
              ELSE <<>>)
  IN  [accept |-> /\ face_found
                  /\ ~RatLess(face_conf, FACE_CONFIDENCE_THRESHOLD)
                  /\ min_side_ok,
       flags |-> [face_found |-> face_found, face_conf |-> face_conf,
                  width |-> width, height |-> height,
                  min_side_ok |-> min_side_ok, notes |-> notes]]

\* The arguments accept_image is called with.
Confidences == {Rat(0, 1), Rat(1, 2), Rat(90, 100), Rat(95, 100)}

Sides == {100, QUALITY_MIN_SIDE - 1, QUALITY_MIN_SIDE, 512}

MinSideArgs == {<<>>, <<100>>}

AcceptImageCall ==
  /\ \E face_found \in BOOLEAN, face_conf \in Confidences,
        width \in Sides, height \in Sides, min_side_arg \in MinSideArgs :
       fn' = [op |-> "accept_image",
              in |-> [face_found |-> face_found, face_conf |-> face_conf,
                      width |-> width, height |-> height,
                      min_side_arg |-> min_side_arg],
              out |-> AcceptImage(face_found, face_conf, width, height, min_side_arg)]
  /\ UNCHANGED ivars
  /\ UNCHANGED bvars
  /\ UNCHANGED cvars

QualityInit ==
  /\ IndexQuiet
  /\ BatchQuiet
  /\ FnQuiet
  /\ ConcQuiet

QualityNext == AcceptImageCall

SpecQuality == QualityInit /\ [][QualityNext]_vars

-----------------------------------------------------------------------------
(* match on a constructed index *)

MaxTopK == 4

QueryVals == {-1, 0, 1, 3}

\* A database a user has stored: families over the sample keys, two of them
\* with the same mean vector.
CustomFamilies ==
  << [name |-> "family_a", features_mean |-> [k \in {"ela_mean"} |-> Rat(1, 1)],
      sample_count |-> 1, last_updated |-> Null],
     [name |-> "family_b", features_mean |-> [k \in {"ela_mean"} |-> Rat(2, 1)],
      sample_count |-> 2, last_updated |-> Null],
     [name |-> "family_c", features_mean |-> [k \in {"ela_mean"} |-> Rat(2, 1)],
      sample_count |-> 1, last_updated |-> Null],
     [name |-> "family_d", features_mean |-> [k \in {"noise_level"} |-> Rat(3, 1)],
      sample_count |-> 1, last_updated |-> Null],
     [name |-> "family_e",
      features_mean |-> [k \in {"ela_mean", "noise_level"} |->
                           IF k = "ela_mean" THEN Rat(3, 1) ELSE Rat(4, 1)],
      sample_count |-> 3, last_updated |-> Null] >>

CustomDb == [has_families |-> TRUE, families |-> CustomFamilies]

MatchFiles ==
  { MissingFile,
    [exists |-> TRUE, text |-> Encode(CustomDb)],
    [exists |-> TRUE, text |-> <<Tok("object")>>] }

\* The feature dictionaries match is called with.
MatchQueries ==
  UNION {[K -> {RatOfInt(v) : v \in QueryVals}] : K \in SUBSET SampleKeys}

MatchInit ==
  /\ file \in MatchFiles
  /\ fsOk \in BOOLEAN
  /\ db = [i \in Inst |-> EmptyDb]
  /\ ipc = [i \in Inst |-> "none"]
  /\ woff = [i \in Inst |-> 0]
  /\ wbuf = [i \in Inst |-> <<>>]
  /\ lastOp = "none"
  /\ lastRet = "none"
  /\ lastArgs = NoArgs
  /\ preDb = EmptyDb
  /\ wrote = FALSE
  /\ history = [n \in FamilyNames |-> <<>>]
  /\ fsAlwaysOk = fsOk
  /\ streak = NoStreak
  /\ nCalls = 0
  /\ saves = [i \in Inst |-> 0]
  /\ overlapped = FALSE
  /\ BatchQuiet
  /\ FnQuiet
  /\ ConcQuiet

\* match(feats, topk) on instance 1.
MatchCall ==
  /\ ipc[1] = "idle"
  /\ \E feats \in MatchQueries, topk \in 0..MaxTopK :
       fn' = [op |-> "match",
              in |-> [db |-> db[1], feats |-> feats, topk |-> topk],
              out |-> Match(db[1], feats, topk)]
  /\ UNCHANGED ivars
  /\ UNCHANGED bvars
  /\ UNCHANGED cvars

MatchNext ==
  \/ Construct
  \/ MatchCall

SpecMatch == MatchInit /\ [][MatchNext]_vars

\* Every comparison the sort makes between two scored families is decided.
SimilarityOrderDecided ==
  fn.op = "match"
  => \A i, j \in 1..Len(fn.out.results) :
       LET a == fn.out.results[i][2]
           b == fn.out.results[j][2]
       IN  (SignedSquare(a) = SignedSquare(b) /\ SignedSquare(a)[1] # 0)
           => CompareMagnitude(a, b).decided

-----------------------------------------------------------------------------
(* Claims about match, under SpecMatch *)

\* C11: match(features, topK) returns at most topK entries, ordered by
\* descending similarity, and two families with equal similarity appear in
\* their storage order.
C11_TopKSortedStable ==
  fn.op = "match"
  => LET top == fn.out.top
         fams == fn.in.db.families
     IN  /\ Len(top) <= fn.in.topk
         /\ \A i, j \in 1..Len(top) :
              i < j
              => /\ CompareSimilarity(top[i][2], top[j][2]) >= 0
                 /\ CompareSimilarity(top[i][2], top[j][2]) = 0
                      => FindFamily(fams, top[i][1]) < FindFamily(fams, top[j][1])

\* match has cut the list, moved a family stored later to the front, and
\* returned two families of equal similarity next to each other.
C11_Witness ==
  /\ fn.op = "match"
  /\ fn.in.topk >= 2
  /\ Len(fn.out.results) > fn.in.topk
  /\ fn.out.results[1][1] # fn.out.top[1][1]
  /\ \E i \in 1..(Len(fn.out.top) - 1) :
       /\ fn.out.top[i][1] = "family_b"
       /\ fn.out.top[i + 1][1] = "family_c"
       /\ CompareSimilarity(fn.out.top[i][2], fn.out.top[i + 1][2]) = 0

\* C12: before the truncation to topK, match scores exactly the families
\* whose features_mean shares at least one key with the query, each over
\* the shared keys only, and it returns an empty sequence when the query is
\* empty or no family shares a key with it.
C12_ScoresFamiliesSharingKeys ==
  fn.op = "match"
  => LET feats == fn.in.feats
         fams == IF fn.in.db.has_families THEN fn.in.db.families ELSE <<>>
         Shares(family) == (DOMAIN family.features_mean) \cap (DOMAIN feats) # {}
         expected == SelectSeq(fams, Shares)
         results == fn.out.results
     IN  /\ Len(results) = Len(expected)
         /\ \A i \in 1..Len(expected) :
              /\ results[i][1] = expected[i].name
              /\ results[i][2] =
                   Similarity(feats, expected[i].features_mean,
                              (DOMAIN expected[i].features_mean) \cap (DOMAIN feats))
         /\ (DOMAIN feats = {} \/ expected = <<>>) => fn.out.top = <<>>

\* match has scored some families and skipped others, and one of the
\* scored families has a key the query lacks.
C12_Witness ==
  /\ fn.op = "match"
  /\ fn.out.results # <<>>
  /\ Len(fn.out.results) < Len(fn.in.db.families)
  /\ \E i \in 1..Len(fn.out.results) :
       /\ fn.out.results[i][1] = "family_e"
       /\ DOMAIN fn.in.feats = {"ela_mean"}
-----------------------------------------------------------------------------
(* Claims about accept_image, under SpecQuality *)

\* The minimum-side threshold of the last accept_image call.
MinSideThreshold ==
  IF fn.in.min_side_arg = <<>> THEN QUALITY_MIN_SIDE ELSE fn.in.min_side_arg[1]

ConfidenceHolds == ~RatLess(fn.in.face_conf, FACE_CONFIDENCE_THRESHOLD)

SmallerSide == IF fn.in.width <= fn.in.height THEN fn.in.width ELSE fn.in.height

\* The notes of the last accept_image call that start with a literal.
NotesWith(literal) ==
  {i \in 1..Len(fn.out.flags.notes) : fn.out.flags.notes[i].literal = literal}

\* notes has an entry equal to the string code.
HasBareNote(code) ==
  \E i \in 1..Len(fn.out.flags.notes) :
    fn.out.flags.notes[i] = Note(code, <<>>)

\* C13: accept_image accepts if and only if a face was found and its
\* confidence is at least the face-confidence threshold and min(width,
\* height) is at least the minimum-side threshold.
C13_AcceptIffAllCriteria ==
  fn.op = "accept_image"
  => (fn.out.accept
      <=> (fn.in.face_found /\ ConfidenceHolds /\ SmallerSide >= MinSideThreshold))

\* An image is accepted with its confidence and its shorter side exactly
\* at the thresholds, its longer side above.
C13_Witness ==
  /\ fn.op = "accept_image"
  /\ fn.out.accept
  /\ fn.in.face_conf = FACE_CONFIDENCE_THRESHOLD
  /\ fn.in.min_side_arg = <<>>
  /\ fn.in.width = QUALITY_MIN_SIDE
  /\ fn.in.height > QUALITY_MIN_SIDE

\* C14: when accept_image rejects, notes contains the entry low_face_conf
\* when a face was found with confidence below the threshold, and the entry
\* no_face_found when no face was found, each equal to the bare code.
C14_BareDiagnosticCodes ==
  (fn.op = "accept_image" /\ ~fn.out.accept)
  => /\ (fn.in.face_found /\ ~ConfidenceHolds) => HasBareNote("low_face_conf")
     /\ ~fn.in.face_found => HasBareNote("no_face_found")

\* C15 (as stated): the notes contain a note for each of the three
\* acceptance criteria that fails (face found, confidence >= threshold, min
\* side >= threshold) and no note for a criterion that holds.
C15_NoteForEachFailedCriterion ==
  fn.op = "accept_image"
  => /\ (NotesWith("no_face_found") # {}) <=> ~fn.in.face_found
     /\ (NotesWith("low_face_conf<") # {}) <=> ~ConfidenceHolds
     /\ (NotesWith("min_side<") # {}) <=> ~(SmallerSide >= MinSideThreshold)

\* C15 (amended): the notes contain the min-side note exactly when the
\* shorter side is below the threshold, the no-face note exactly when no
\* face was found, and the low-confidence note exactly when a face was found
\* with a confidence below the threshold; a low confidence without a face
\* gets no note of its own.  There are no other notes and none is repeated.
C15_NotesMatchReportedCriteria ==
  fn.op = "accept_image"
  => /\ (NotesWith("no_face_found") # {}) <=> ~fn.in.face_found
     /\ (NotesWith("low_face_conf<") # {}) <=> (fn.in.face_found /\ ~ConfidenceHolds)
     /\ (NotesWith("min_side<") # {}) <=> ~(SmallerSide >= MinSideThreshold)
     /\ \A i \in 1..Len(fn.out.flags.notes) :
          fn.out.flags.notes[i].literal \in {"no_face_found", "low_face_conf<", "min_side<"}
     /\ \A l \in {"no_face_found", "low_face_conf<", "min_side<"} :
          Cardinality(NotesWith(l)) <= 1

\* No face was found, the confidence is below the threshold and the image
\* is too small: two notes, none for the confidence.
C15_Witness ==
  /\ fn.op = "accept_image"
  /\ ~fn.in.face_found
  /\ ~ConfidenceHolds
  /\ SmallerSide < MinSideThreshold
  /\ Len(fn.out.flags.notes) = 2

-----------------------------------------------------------------------------
(* features and score of the heuristic detector *)

\* The images features is called with: each extractor may raise or not.
DetectorImages ==
  [malformed : {FALSE}, face : BOOLEAN, fails : SUBSET FeatureKeys] \cup {Malformed}

\* The dictionaries score is called with: any keys, values numbers or not.
ScoreInputs ==
  UNION {[K -> {NonNumeric, Rat(1, 2), Rat(15, 1)}] :
           K \in SUBSET (FeatureKeys \cup {"noise_level"})}

FeaturesCall ==
  /\ \E im \in DetectorImages, crop \in BOOLEAN :
       fn' = [op |-> "features",
              in |-> [im |-> im, crop |-> crop],
              out |-> Features([im |-> im, crop |-> crop])]
  /\ UNCHANGED ivars
  /\ UNCHANGED bvars
  /\ UNCHANGED cvars

ScoreCall ==
  /\ \E feats \in ScoreInputs :
       fn' = [op |-> "score", in |-> [feats |-> feats], out |-> Score(feats)]
  /\ UNCHANGED ivars
  /\ UNCHANGED bvars
  /\ UNCHANGED cvars

DetectorInit ==
  /\ IndexQuiet
  /\ BatchQuiet
  /\ FnQuiet
  /\ ConcQuiet

DetectorNext ==
  \/ FeaturesCall
  \/ ScoreCall

SpecDetector == DetectorInit /\ [][DetectorNext]_vars

-----------------------------------------------------------------------------
(* Claims about features and score, under SpecDetector *)

\* C19: features never raises; if any of the four extractors fails it
\* returns the complete default vector {ela_mean 0.0, fft_high_ratio 0.5,
\* lap_var 100.0, jpeg_score 0.5}, never a mix of computed and default
\* values, and otherwise a vector with exactly those four keys.
C19_FeaturesAllOrDefault ==
  fn.op = "features"
  => /\ ~fn.out.raised
     /\ DOMAIN fn.out.value = {"ela_mean", "fft_high_ratio", "lap_var", "jpeg_score"}
     /\ fn.in.im.fails # {}
          => /\ fn.out.value["ela_mean"] = Rat(0, 1)
             /\ fn.out.value["fft_high_ratio"] = Rat(1, 2)
             /\ fn.out.value["lap_var"] = Rat(100, 1)
             /\ fn.out.value["jpeg_score"] = Rat(1, 2)

\* Only the Laplacian extractor raised, on a face crop whose other three
\* values all differ from the defaults, and features has returned.
C19_Witness ==
  /\ fn.op = "features"
  /\ fn.in.im.fails = {"lap_var"}
  /\ fn.in.crop
  /\ \A k \in FeatureKeys : ExtractorOutputs([im |-> fn.in.im, crop |-> TRUE])[k]
                              # DefaultFeatures[k]
  /\ ~fn.out.raised

\* C20: score returns the neutral score 0.5 and does not raise when the
\* feature vector lacks a required key or holds a non-numeric value for one.
C20_ScoreNeutralOnBadInput ==
  (/\ fn.op = "score"
   /\ \E k \in {"ela_mean", "fft_high_ratio", "lap_var", "jpeg_score"} :
        \/ k \notin DOMAIN fn.in.feats
        \/ fn.in.feats[k] = NonNumeric)
  => /\ ~fn.out.raised
     /\ fn.out.neutral

\* score has returned on a vector with the four keys of which exactly one
\* holds a value that is not a number.
C20_Witness ==
  /\ fn.op = "score"
  /\ DOMAIN fn.in.feats = FeatureKeys
  /\ Cardinality({k \in FeatureKeys : fn.in.feats[k] = NonNumeric}) = 1
  /\ fn.out.neutral

-----------------------------------------------------------------------------
(* The single-image analysis route *)

\* ensure_min_size(im, 256): the shorter side of the image analysed.
AnalyzeMinSide == 256

\* A stored family entry that is not a JSON object (a string, a number).
NonObjectFamily ==
  [name |-> "", features_mean |-> NoFeatures, sample_count |-> 0,
   last_updated |-> "not_an_object"]

\* A stored database one of whose family entries is not an object.
BrokenDb ==
  [has_families |-> TRUE, families |-> <<CustomFamilies[1], NonObjectFamily>>]

\* match on such a database: family.get raises AttributeError inside the
\* loop's try, and the handler's own family.get raises it again, outside
\* any try of match.
MatchRaises(d) ==
  d.has_families /\ \E i \in 1..Len(d.families) : d.families[i] = NonObjectFamily

\* The fingerprints file a request finds: absent, a stored database, text
\* json rejects, a database with a family entry that is not an object.
AnalyzeFiles ==
  { MissingFile,
    [exists |-> TRUE, text |-> Encode(CustomDb)],
    [exists |-> TRUE, text |-> <<Tok("hole")>>],
    [exists |-> TRUE, text |-> Encode(BrokenDb)] }

\* The images a request uploads: with and without a face, one on which an
\* extractor raises, one the imaging library cannot open.
AnalyzeImages ==
  { GoodFace, GoodNoFace,
    [malformed |-> FALSE, face |-> TRUE, fails |-> {"ela_mean"}],
    Malformed }

\* What raises during one request, apart from what the image and the
\* fingerprints file bring about: the scorer's expression, the Canny and
\* Laplacian calls of _create_fallback_heatmap, the colour map and blend of
\* _overlay_heatmap, os.makedirs(OUTPUT_DIR), the saving of the two PNGs.
DegradableFailures == {"score", "fallback_heatmap", "overlay"}

FatalFailures == {"makedirs", "save_files"}

\* raise HTTPException(status_code, detail)
HttpError(status_code, detail) ==
  [status |-> status_code, detail |-> detail, body |-> <<>>]

\* The side of face_im: the image after ensure_min_size, or a crop of it.
FaceImSide(face_im) ==
  IF face_im.crop THEN AnalyzeMinSide \div 2 ELSE AnalyzeMinSide

\* heur_detector.analyze with a scorer whose expression may raise: score
\* returns 0.5 from its except branch.
AnalyzeHeuristic(face_im, failures) ==
  LET f == Features(face_im)
      sc == IF "score" \in failures
              THEN [raised |-> FALSE, neutral |-> TRUE, logit |-> <<0, 1>>]
              ELSE Score(f.value)
  IN  [raised |-> f.raised \/ sc.raised, score |-> sc, features |-> f.value]

\* TorchDetector.gradcam: the import of src.models.gradcam fails (the module
\* is not in the package), the except branch returns None.
Gradcam(face_im) == "None"

\* _create_fallback_heatmap: the forensic map, or the uniform 0.5 map of
\* its except branch.
CreateFallbackHeatmap(failures) ==
  IF "fallback_heatmap" \in failures THEN "uniform" ELSE "forensic"

\* _overlay_heatmap: the blend, or base_rgb from its except branch.
OverlayHeatmap(failures) ==
  IF "overlay" \in failures THEN "base_rgb" ELSE "blend"

\* The number of families match scores: those sharing a key with feats.
ScoredCount(fams, feats) ==
  Cardinality({i \in 1..Len(fams) :
                 ~SkipFamily(CommonKeys(fams[i].features_mean, feats))})

\* AttributionIndex(FINGERPRINTS_PATH) followed by match(features, topk=3):
\* n is the number of entries match returns, raised tells an exception that
\* leaves match.
AttributionQuery(f, feats) ==
  LET d == Load(f).db
  IN  IF MatchRaises(d) THEN [raised |-> TRUE, n |-> 0]
      ELSE IF DOMAIN feats = {} THEN [raised |-> FALSE, n |-> 0]
      ELSE [raised |-> FALSE,
            n |-> Min(3, ScoredCount(IF d.has_families THEN d.families ELSE <<>>,
                                     feats))]

\* The attribution block without its try/except.
AttributionUnguarded(q) == q

\* except Exception: topk_matches = []
AttributionGuarded(q) ==
  IF q.raised THEN [raised |-> FALSE, n |-> 0] ELSE q

\* The second entry of "notes": chosen by torch_pred.get("available").
HeatmapNote(torch_pred) ==
  IF ~torch_pred.available THEN "Forensic fallback heatmap"
  ELSE "Grad-CAM layer"

\* The body of analyze: the HTTP response of one request.
AnalyzeRoute(upload_ok, im, failures, f) ==
  IF ~upload_ok THEN HttpError(400, "Unsupported format")
  ELSE IF im.malformed THEN HttpError(500, "Internal analysis error")
  ELSE
    LET face == DetectLargestFace(im)
        side == FaceImSide(face.face_im)
        quality == AcceptImage(face.found, face.conf, side, side, <<>>)
        heur_result == AnalyzeHeuristic(face.face_im, failures)
        torch_pred == TorchPredict(face.face_im)
        gradcam == IF torch_pred.available THEN Gradcam(face.face_im) ELSE "None"
        heat == IF gradcam = "None" THEN CreateFallbackHeatmap(failures) ELSE gradcam
        topk_matches == AttributionGuarded(AttributionQuery(f, heur_result.features))
    IN  IF face.raised \/ heur_result.raised \/ torch_pred.raised \/ topk_matches.raised
          THEN HttpError(500, "Internal analysis error")
        ELSE IF "makedirs" \in failures
          THEN HttpError(500, "Internal analysis error")
        ELSE IF "save_files" \in failures
          THEN HttpError(500, "Failed to generate visualizations")
        ELSE [status |-> 200, detail |-> "",
              body |-> [face_found |-> face.found,
                        accepted_for_learning |-> quality.accept,
                        heuristic_deepfake_score |-> heur_result.score,
                        deep_model_available |-> torch_pred.available,
                        features |-> heur_result.features,
                        attribution_topk |-> topk_matches.n,
                        heatmap |-> heat,
                        overlay |-> OverlayHeatmap(failures),
                        notes |-> HeatmapNote(torch_pred)]]

\* The request reaches AttributionIndex(FINGERPRINTS_PATH).
ReachesAttribution(upload_ok, im) == upload_ok /\ ~im.malformed

AnalyzeInit ==
  /\ file \in AnalyzeFiles
  /\ fsOk \in BOOLEAN
  /\ db = [i \in Inst |-> EmptyDb]
  /\ ipc = [i \in Inst |-> "none"]
  /\ woff = [i \in Inst |-> 0]
  /\ wbuf = [i \in Inst |-> <<>>]
  /\ lastOp = "none"
  /\ lastRet = "none"
  /\ lastArgs = NoArgs
  /\ preDb = EmptyDb
  /\ wrote = FALSE
  /\ history = [n \in FamilyNames |-> <<>>]
  /\ fsAlwaysOk = fsOk
  /\ streak = NoStreak
  /\ nCalls = 0
  /\ saves = [i \in Inst |-> 0]
  /\ overlapped = FALSE
  /\ faceAvailable \in BOOLEAN
  /\ torchAvailable \in BOOLEAN
  /\ calls = [c \in Calls |-> NoCall]
  /\ workQueue = <<>>
  /\ running = {}
  /\ finished = [c \in Calls |-> <<>>]
  /\ nextId = 1
  /\ FnQuiet
  /\ ConcQuiet

\* One POST /analyze.  The index built for the request writes the default
\* database when _load falls back to it.
AnalyzeCall ==
  /\ \E upload_ok \in BOOLEAN, im \in AnalyzeImages,
        failures \in SUBSET (DegradableFailures \cup FatalFailures) :
       /\ fn' = [op |-> "analyze",
                 in |-> [upload_ok |-> upload_ok, im |-> im, failures |-> failures,
                         file |-> file],
                 out |-> AnalyzeRoute(upload_ok, im, failures, file)]
       /\ file' = IF ReachesAttribution(upload_ok, im) /\ Load(file).created_default
                    THEN SaveWhole(file, Load(file).db, fsOk)
                    ELSE file
  /\ UNCHANGED <<fsOk, db, ipc, woff, wbuf, lastOp, lastRet, lastArgs, preDb, wrote,
                 history, fsAlwaysOk, streak, nCalls, saves, overlapped>>
  /\ UNCHANGED bvars
  /\ UNCHANGED cvars

AnalyzeNext == AnalyzeCall

SpecAnalyze == AnalyzeInit /\ [][AnalyzeNext]_vars

-----------------------------------------------------------------------------
(* Claims about the analysis route, under SpecAnalyze *)

\* Nothing but the degradable computations and the attribution index fails
\* in the request.
OnlyDegradableFailures(i) ==
  /\ i.upload_ok
  /\ ~i.im.malformed
  /\ i.failures \cap FatalFailures = {}

\* C18: no failure of feature extraction, scoring, fallback heatmap
\* generation, overlay compositing, or attribution index loading or matching
\* leaves the single-image analysis as an error: the analysis returns a
\* result, with the default feature vector, the neutral score, the uniform
\* heatmap, the plain image as overlay, and an empty attribution_topk in
\* place of what failed.
C18_DegradableFailuresAbsorbed ==
  (fn.op = "analyze" /\ OnlyDegradableFailures(fn.in))
  => /\ fn.out.status = 200
     /\ (fn.in.im.fails # {} => fn.out.body.features = DefaultFeatures)
     /\ ("score" \in fn.in.failures => fn.out.body.heuristic_deepfake_score.neutral)
     /\ ("fallback_heatmap" \in fn.in.failures => fn.out.body.heatmap = "uniform")
     /\ ("overlay" \in fn.in.failures => fn.out.body.overlay = "base_rgb")
     /\ (MatchRaises(Load(fn.in.file).db) => fn.out.body.attribution_topk = 0)

\* A request in which an extractor, the scorer, the fallback heatmap, the
\* overlay and the attribution match all failed has returned a result.
C18_Witness ==
  /\ fn.op = "analyze"
  /\ OnlyDegradableFailures(fn.in)
  /\ fn.in.im.fails # {}
  /\ DegradableFailures \subseteq fn.in.failures
  /\ MatchRaises(Load(fn.in.file).db)
  /\ fn.out.status = 200
  /\ fn.out.body.attribution_topk = 0

-----------------------------------------------------------------------------
(* detect_largest_face, box by box *)

\* The sides of the images and the coordinates int(v) of the boxes MTCNN
\* reports: left of, inside and right of the image.
FaceImageSides == {4}

BoxCoords == {-1, 1, 5}

\* What self._mtcnn.detect(pil_im) does: it raises, returns boxes None,
\* returns an empty list, or returns the best box with its probability.
Detections ==
  {[kind |-> k, box |-> <<0, 0, 0, 0>>, prob |-> <<0, 1>>] :
     k \in {"raises", "none", "empty"}}
  \cup [kind : {"box"}, box : BoxCoords \X BoxCoords \X BoxCoords \X BoxCoords,
        prob : {Rat(1, 2), Rat(99, 100)}]

\* The image itself, as returned on every fallback path.
OriginalImage(pil_im) == [im |-> pil_im, region |-> <<>>]

\* return pil_im, False, 0.0
NoFaceResult(pil_im) ==
  [raised |-> FALSE, face |-> OriginalImage(pil_im), found |-> FALSE,
   conf |-> <<0, 1>>]

\* A region test that accepts every box.
RegionNeverInvalid(x1, y1, x2, y2) == FALSE

\* if x2 <= x1 or y2 <= y1
InvalidRegion(x1, y1, x2, y2) == x2 <= x1 \/ y2 <= y1

\* FaceDetectorSingleton.detect_largest_face on an image of the given
\* width and height.
DetectLargestFaceIn(available, mtcnn_set, pil_im, detection) ==
  IF ~available \/ ~mtcnn_set THEN NoFaceResult(pil_im)
  ELSE IF detection.kind = "raises" THEN NoFaceResult(pil_im)
  ELSE IF detection.kind \in {"none", "empty"} THEN NoFaceResult(pil_im)
  ELSE LET x1 == Max(0, detection.box[1])
           y1 == Max(0, detection.box[2])
           x2 == Min(pil_im.width, detection.box[3])
           y2 == Min(pil_im.height, detection.box[4])
       IN  IF InvalidRegion(x1, y1, x2, y2) THEN NoFaceResult(pil_im)
           ELSE [raised |-> FALSE,
                 face |-> [im |-> pil_im, region |-> <<x1, y1, x2, y2>>],
                 found |-> TRUE, conf |-> detection.prob]

DetectLargestFaceCall ==
  /\ \E available \in BOOLEAN, mtcnn_set \in BOOLEAN,
        width \in FaceImageSides, height \in FaceImageSides,
        detection \in Detections :
       LET pil_im == [width |-> width, height |-> height] IN
         fn' = [op |-> "detect_largest_face",
                in |-> [available |-> available, mtcnn_set |-> mtcnn_set,
                        pil_im |-> pil_im, detection |-> detection],
                out |-> DetectLargestFaceIn(available, mtcnn_set, pil_im, detection)]
  /\ UNCHANGED ivars
  /\ UNCHANGED bvars
  /\ UNCHANGED cvars

FaceInit ==
  /\ IndexQuiet
  /\ BatchQuiet
  /\ FnQuiet
  /\ ConcQuiet

FaceNext == DetectLargestFaceCall

SpecFace == FaceInit /\ [][FaceNext]_vars

\* The face region of the reported box is empty once it is cut to the
\* image.
EmptyFaceRegion(pil_im, box) ==
  \/ Min(pil_im.width, box[3]) <= Max(0, box[1])
  \/ Min(pil_im.height, box[4]) <= Max(0, box[2])

\* C21: detect_largest_face never raises; when the detector is unavailable,
\* finds no face, yields an empty face region or fails internally, it
\* returns the original image with found = false and confidence 0.0.
C21_DetectNeverRaises ==
  fn.op = "detect_largest_face"
  => /\ ~fn.out.raised
     /\ (\/ ~fn.in.available
         \/ ~fn.in.mtcnn_set
         \/ fn.in.detection.kind \in {"raises", "none", "empty"}
         \/ EmptyFaceRegion(fn.in.pil_im, fn.in.detection.box))
        => /\ fn.out.face = OriginalImage(fn.in.pil_im)
           /\ fn.out.found = FALSE
           /\ fn.out.conf = <<0, 1>>

\* An available detector reported a box that lies outside the image, and
\* the call has returned the original image.
C21_Witness ==
  /\ fn.op = "detect_largest_face"
  /\ fn.in.available /\ fn.in.mtcnn_set
  /\ fn.in.detection.kind = "box"
  /\ EmptyFaceRegion(fn.in.pil_im, fn.in.detection.box)
  /\ fn.out.face = OriginalImage(fn.in.pil_im)
  /\ ~fn.out.found

-----------------------------------------------------------------------------
(* FaceDetectorSingleton.__new__, thread by thread *)

\* The threads inside __new__.
InsideNew == {t \in Threads : spc[t] \in {"check", "assign", "initialize", "return"}}

\* A class that any thread may call at any time.
ClassAlwaysVisible(t) == TRUE

\* The class is a name of the module src.models.face_detector: a thread
\* reaches it once the import has completed, or while it runs the module
\* body itself.  A thread that imports the module while another thread runs
\* its body waits on the import lock.
ClassVisible(t) ==
  \/ modState.state = "imported"
  \/ modState.state = "importing" /\ modState.importer = t

\* The first import of the module: thread t takes the import lock and runs
\* the module body up to line 73, face_detector = FaceDetectorSingleton().
ImportStart(t) ==
  /\ modState.state = "unimported"
  /\ spc[t] = "idle"
  /\ modState' = [modState EXCEPT !.state = "importing", !.importer = t]
  /\ spc' = [spc EXCEPT ![t] = "check"]
  /\ sOverlap' = (sOverlap \/ InsideNew \ {t} # {})
  /\ UNCHANGED <<cls, sret>>
  /\ UNCHANGED <<ivars, bvars, fvars, rvars>>

\* FaceDetectorSingleton() called by thread t of the running program.
NewCall(t) ==
  /\ modState.state # "importing" \/ modState.importer # t
  /\ ClassVisible(t)
  /\ spc[t] = "idle"
  /\ sret[t] = 0
  /\ spc' = [spc EXCEPT ![t] = "check"]
  /\ sOverlap' = (sOverlap \/ InsideNew \ {t} # {})
  /\ UNCHANGED <<modState, cls, sret>>
  /\ UNCHANGED <<ivars, bvars, fvars, rvars>>

\* if cls._instance is None
NewCheck(t) ==
  /\ spc[t] = "check"
  /\ spc' = [spc EXCEPT ![t] = IF cls.instance = 0 THEN "assign" ELSE "return"]
  /\ UNCHANGED <<modState, cls, sret, sOverlap>>
  /\ UNCHANGED <<ivars, bvars, fvars, rvars>>

\* cls._instance = super().__new__(cls)
NewAssign(t) ==
  /\ spc[t] = "assign"
  /\ cls' = [cls EXCEPT !.objects = @ + 1, !.instance = cls.objects + 1]
  /\ spc' = [spc EXCEPT ![t] = "initialize"]
  /\ UNCHANGED <<modState, sret, sOverlap>>
  /\ UNCHANGED <<ivars, bvars, fvars, rvars>>

\* cls._instance._initialize()
NewInitialize(t) ==
  /\ spc[t] = "initialize"
  /\ cls' = [cls EXCEPT !.initRuns = @ + 1]
  /\ spc' = [spc EXCEPT ![t] = "return"]
  /\ UNCHANGED <<modState, sret, sOverlap>>
  /\ UNCHANGED <<ivars, bvars, fvars, rvars>>

\* return cls._instance.  The construction of line 73 ends the import and
\* binds the module's face_detector.
NewReturn(t) ==
  /\ spc[t] = "return"
  /\ spc' = [spc EXCEPT ![t] = "idle"]
  /\ IF modState.state = "importing" /\ modState.importer = t
       THEN /\ modState' = [state |-> "imported", importer |-> t,
                            face_detector |-> cls.instance]
            /\ UNCHANGED sret
       ELSE /\ sret' = [sret EXCEPT ![t] = cls.instance]
            /\ UNCHANGED modState
  /\ UNCHANGED <<cls, sOverlap>>
  /\ UNCHANGED <<ivars, bvars, fvars, rvars>>

SingletonInit ==
  /\ IndexQuiet
  /\ BatchQuiet
  /\ FnQuiet
  /\ ConcQuiet

SingletonNext ==
  \/ \E t \in Threads : ImportStart(t)
  \/ \E t \in Threads : NewCall(t)
  \/ \E t \in Threads : NewCheck(t)
  \/ \E t \in Threads : NewAssign(t)
  \/ \E t \in Threads : NewInitialize(t)
  \/ \E t \in Threads : NewReturn(t)

SpecSingleton == SingletonInit /\ [][SingletonNext]_vars

\* C22: in every execution, also when several threads construct
\* FaceDetectorSingleton at the same time, all constructions return the
\* same instance and _initialize runs at most once.
C22_OneInstanceOneInitialize ==
  /\ cls.initRuns <= 1
  /\ \A t \in Threads : sret[t] # 0 => sret[t] = modState.face_detector
  /\ \A t, u \in Threads : (sret[t] # 0 /\ sret[u] # 0) => sret[t] = sret[u]

\* Two threads were inside __new__ together and every thread's
\* construction has returned.
C22_Witness ==
  /\ sOverlap
  /\ \A t \in Threads : sret[t] # 0

-----------------------------------------------------------------------------
(* Startup: validate_config and lifespan *)

\* The values the configuration module reads from the environment: the
\* defaults and values outside their meaningful range.
Configs ==
  [MAX_FILE_SIZE_MB : {0, 10},
   MAX_IMAGE_DIMENSION : {224, 4096},
   MIN_IMAGE_DIMENSION : {224},
   FACE_CONFIDENCE_THRESHOLD : {Rat(-1, 10), Rat(90, 100), Rat(15, 10)},
   QUALITY_MIN_SIDE : {-5, 0, 224},
   fft_weight : {Rat(-1, 1), Rat(9, 10)},
   steepness : {Rat(-4, 1), Rat(0, 1), Rat(4, 1)}]

\* validate_config: the list of errors it collects.
ConfigErrors(c) ==
  (IF c.MAX_FILE_SIZE_MB <= 0 THEN <<"MAX_FILE_SIZE_MB must be positive">> ELSE <<>>)
  \o (IF c.MAX_IMAGE_DIMENSION <= c.MIN_IMAGE_DIMENSION
        THEN <<"MAX_IMAGE_DIMENSION must be greater than MIN_IMAGE_DIMENSION">>
        ELSE <<>>)
  \o (IF ~(~RatLess(c.FACE_CONFIDENCE_THRESHOLD, <<0, 1>>)
           /\ ~RatLess(<<1, 1>>, c.FACE_CONFIDENCE_THRESHOLD))
        THEN <<"FACE_CONFIDENCE_THRESHOLD must be between 0.0 and 1.0">>
        ELSE <<>>)

\* validate_config raises ValueError when it has collected an error.
ValidateConfig(c) ==
  IF ConfigErrors(c) # <<>> THEN [raised |-> TRUE, errors |-> ConfigErrors(c)]
  ELSE [raised |-> FALSE, errors |-> <<>>]

\* lifespan up to its yield: the exception of validate_config is logged and
\* raised again, otherwise the application starts serving.
Lifespan(c) ==
  IF ValidateConfig(c).raised
    THEN [state |-> "aborted", errors |-> ValidateConfig(c).errors]
    ELSE [state |-> "serving", errors |-> <<>>]

StartupCall ==
  /\ \E c \in Configs :
       fn' = [op |-> "startup", in |-> c, out |-> Lifespan(c)]
  /\ UNCHANGED ivars
  /\ UNCHANGED bvars
  /\ UNCHANGED cvars

StartupInit ==
  /\ IndexQuiet
  /\ BatchQuiet
  /\ FnQuiet
  /\ ConcQuiet

StartupNext == StartupCall

SpecStartup == StartupInit /\ [][StartupNext]_vars

\* A threshold or weight of the configuration has an invalid value.
InvalidConfig(c) ==
  \/ RatLess(c.FACE_CONFIDENCE_THRESHOLD, <<0, 1>>)
  \/ RatLess(<<1, 1>>, c.FACE_CONFIDENCE_THRESHOLD)
  \/ c.QUALITY_MIN_SIDE <= 0
  \/ RatLess(c.fft_weight, <<0, 1>>)
  \/ ~RatLess(<<0, 1>>, c.steepness)

\* C23: if a configured threshold or heuristic weight has an invalid value
\* (a face-confidence threshold outside [0, 1], a non-positive minimum side,
\* an out-of-range weight or steepness), startup is aborted with an error
\* before any analysis is served.
C23_InvalidConfigAbortsStartup ==
  (fn.op = "startup" /\ InvalidConfig(fn.in)) => fn.out.state = "aborted"

-----------------------------------------------------------------------------
(* sanitize_filename *)

\* A string is the sequence of its characters.
MaxNameLen == 3

\* A letter, the dot, and characters that are removed.
NameChars == {"a", ".", "/", "\\", "<", ">"}

\* c.isalnum()
IsAlnum(c) == c = "a"

\* The file names received: every short string, and names of 255 and 256
\* letters.
FileNames ==
  UNION {[1..n -> NameChars] : n \in 0..MaxNameLen}
  \cup {[i \in 1..n |-> "a"] : n \in {255, 256}}

\* os.path.basename: what follows the last "/".
Basename(filename) ==
  LET slashes == {i \in 1..Len(filename) : filename[i] = "/"}
      last == IF slashes = {} THEN 0
              ELSE CHOOSE i \in slashes : \A j \in slashes : j <= i
  IN  SubSeq(filename, last + 1, Len(filename))

\* c.isalnum() or c in "._-"
IsSafeChar(c) == IsAlnum(c) \/ c \in {".", "_", "-"}

\* "".join(c for c in safe_name if c.isalnum() or c in "._-")
KeepSafeChars(name) == SelectSeq(name, IsSafeChar)

\* "uploaded_image.jpg"
UploadedImageName ==
  <<"u", "p", "l", "o", "a", "d", "e", "d", "_", "i", "m", "a", "g", "e", ".",
    "j", "p", "g">>

\* sanitize_filename
SanitizeFilename(filename) ==
  LET safe_name == KeepSafeChars(Basename(filename))
  IN  IF safe_name = <<>> \/ Len(safe_name) > 255 THEN UploadedImageName
      ELSE safe_name

SanitizeCall ==
  /\ \E filename \in FileNames :
       fn' = [op |-> "sanitize_filename", in |-> filename,
              out |-> SanitizeFilename(filename)]
  /\ UNCHANGED ivars
  /\ UNCHANGED bvars
  /\ UNCHANGED cvars

SanitizeInit ==
  /\ IndexQuiet
  /\ BatchQuiet
  /\ FnQuiet
  /\ ConcQuiet

SanitizeNext == SanitizeCall

SpecSanitize == SanitizeInit /\ [][SanitizeNext]_vars

\* The name holds two dots in a row.
HasDotDot(name) ==
  \E i \in 1..(Len(name) - 1) : name[i] = "." /\ name[i + 1] = "."

\* C24: for every input string, sanitize_filename returns a non-empty name
\* of at most 255 characters that contains none of '<', '>', '/', '\' and
\* no '..' substring.
C24_SanitizedNameIsSafe ==
  fn.op = "sanitize_filename"
  => /\ fn.out # <<>>
     /\ Len(fn.out) <= 255
     /\ \A i \in 1..Len(fn.out) : fn.out[i] \notin {"<", ">", "/", "\\"}
     /\ ~HasDotDot(fn.out)

-----------------------------------------------------------------------------
(* The range of the similarity, under SpecMatch *)

\* The value dot / ((sqrt(query_sq) + 1e-8) * (sqrt(family_sq) + 1e-8)) lies
\* in [0, 1]: the dot product is not negative, and its square does not
\* exceed the product of the squared norms (the 1e-8 terms only enlarge the
\* denominator).
InUnitRange(s) ==
  /\ s.dot_product[1] >= 0
  /\ ~RatLess(RatMul(s.query_sq, s.family_sq),
              RatMul(s.dot_product, s.dot_product))

\* C25: every similarity score returned by match lies in the range [0, 1].
C25_SimilarityInUnitRange ==
  fn.op = "match"
  => \A i \in 1..Len(fn.out.top) : InUnitRange(fn.out.top[i][2])

-----------------------------------------------------------------------------
(* The value score returns *)

\* A float known by an enclosure: lo <= value <= hi.
Exactly(v) == [lo |-> v, hi |-> v]

\* 1.0 / (1.0 + np.exp(-l)): at least one half for l >= 0, at most one half
\* for l < 0.  The ends are reached in floating point: np.exp overflows to
\* inf for l below about -709 and the quotient is 0.0; for l above about 37
\* the quotient rounds to 1.0.
Sigmoid(l) ==
  IF l[1] >= 0 THEN [lo |-> Rat(1, 2), hi |-> <<1, 1>>]
  ELSE [lo |-> <<0, 1>>, hi |-> Rat(1, 2)]

\* np.clip(s, 0.0, 1.0)
Clip(s) ==
  [lo |-> IF RatLess(s.lo, <<0, 1>>) THEN <<0, 1>>
          ELSE IF RatLess(<<1, 1>>, s.lo) THEN <<1, 1>> ELSE s.lo,
   hi |-> IF RatLess(s.hi, <<0, 1>>) THEN <<0, 1>>
          ELSE IF RatLess(<<1, 1>>, s.hi) THEN <<1, 1>> ELSE s.hi]

\* A scorer that returns the weighted sum itself.
LinearScoreValue(feats) ==
  IF ScoreRaises(feats) THEN Exactly(Rat(1, 2)) ELSE Exactly(Logit(feats))

\* The float HeuristicDetector.score returns.
ScoreValue(feats) ==
  IF ScoreRaises(feats) THEN Exactly(Rat(1, 2))
  ELSE Clip(Sigmoid(Logit(feats)))

\* Feature values of any sign and size.
ScoreExtremes == {Rat(-1000, 1), Rat(0, 1), Rat(1, 2), Rat(1000, 1)}

\* The vectors that hold the four feature keys with numbers.
NumericVectors == [FeatureKeys -> ScoreExtremes]

ScoreValueCall ==
  /\ \E feats \in NumericVectors :
       fn' = [op |-> "score_value", in |-> feats, out |-> ScoreValue(feats)]
  /\ UNCHANGED ivars
  /\ UNCHANGED bvars
  /\ UNCHANGED cvars

ScoreInit ==
  /\ IndexQuiet
  /\ BatchQuiet
  /\ FnQuiet
  /\ ConcQuiet

ScoreNext == ScoreValueCall

SpecScore == ScoreInit /\ [][ScoreNext]_vars

\* C26: for every feature vector holding the four numeric feature keys,
\* HeuristicDetector.score returns a value in [0.0, 1.0].
C26_ScoreInUnitRange ==
  fn.op = "score_value"
  => /\ ~RatLess(fn.out.lo, <<0, 1>>)
     /\ ~RatLess(<<1, 1>>, fn.out.hi)

\* score was called on a vector whose weighted sum lies far below the
\* threshold, where np.exp overflows.
C26_Witness ==
  /\ fn.op = "score_value"
  /\ RatLess(Logit(fn.in), Rat(-709, 1))
  /\ fn.out.lo = <<0, 1>>

-----------------------------------------------------------------------------
(* Construction beside a save in progress, under SpecSave *)

\* Instance j is inside _save: about to open the file, or writing it.
Saving(j) == ipc[j] \in {"save_open", "save_write"}

-----------------------------------------------------------------------------
(* What add_sample leaves alone, under SpecIndex *)

\* No two families of the sequence have the same name.
UniqueNames(fams) ==
  \A i, j \in 1..Len(fams) : fams[i].name = fams[j].name => i = j

\* C28: add_sample(F, features) changes at most the family named F: every
\* other family (name, features_mean, sample_count, last_updated) and the
\* relative order of the existing families are unchanged, and the database
\* never comes to hold two families with the same name.
C28_OnlyNamedFamilyChanges ==
  lastOp = "add_sample"
  => IF ~preDb.has_families THEN db[1] = preDb
     ELSE LET old == preDb.families
              new == db[1].families
          IN  /\ db[1].has_families
              /\ Len(new) \in {Len(old), Len(old) + 1}
              /\ \A i \in 1..Len(old) :
                   /\ new[i].name = old[i].name
                   /\ old[i].name # lastArgs.name => new[i] = old[i]
              /\ Len(new) = Len(old) + 1 => new[Len(new)].name = lastArgs.name
              /\ UniqueNames(old) => UniqueNames(new)

\* add_sample has changed the family it names in a database that holds
\* other families too.
C28_Witness ==
  /\ lastOp = "add_sample"
  /\ preDb.has_families
  /\ Len(preDb.families) >= 2
  /\ db[1] # preDb
  /\ \E i \in 1..Len(preDb.families) : preDb.families[i].name # lastArgs.name

-----------------------------------------------------------------------------
(* RateLimiter.check_rate_limit for one client, thread by thread *)

\* The limits a RateLimiter is constructed with, and the last reading of
\* the clock.
MaxLimit == 2

MaxWindow == 1

MaxTime == 2

\* The threads of the pool that serve one client's requests.
MaxCallers == 2

Callers == 1..MaxCallers

\* current_time = time.time()
RlStart(t) ==
  /\ rpc[t] = "idle"
  /\ rlocal' = [rlocal EXCEPT ![t].current_time = clock]
  /\ rpc' = [rpc EXCEPT ![t] = "cleanup"]
  /\ UNCHANGED <<limiter, requests, clock, accepted>>
  /\ UNCHANGED <<ivars, bvars, fvars, svars>>

\* _cleanup_old_requests: the test of the while loop.
RlCleanupTest(t) ==
  /\ rpc[t] = "cleanup"
  /\ LET cutoff == rlocal[t].current_time - limiter.window_seconds
     IN  rpc' = [rpc EXCEPT ![t] =
                   IF requests # <<>> /\ requests[1] < cutoff THEN "popleft"
                   ELSE "count"]
  /\ UNCHANGED <<limiter, requests, clock, rlocal, accepted>>
  /\ UNCHANGED <<ivars, bvars, fvars, svars>>

\* _cleanup_old_requests: popleft(); on a deque another thread has emptied
\* it raises IndexError, which ends the call.
RlPopleft(t) ==
  /\ rpc[t] = "popleft"
  /\ IF requests = <<>>
       THEN /\ rpc' = [rpc EXCEPT ![t] = "idle"]
            /\ UNCHANGED requests
       ELSE /\ requests' = Tail(requests)
            /\ rpc' = [rpc EXCEPT ![t] = "cleanup"]
  /\ UNCHANGED <<limiter, clock, rlocal, accepted>>
  /\ UNCHANGED <<ivars, bvars, fvars, svars>>

\* request_count = len(self.requests[client_id])
RlCount(t) ==
  /\ rpc[t] = "count"
  /\ rlocal' = [rlocal EXCEPT ![t].request_count = Len(requests)]
  /\ rpc' = [rpc EXCEPT ![t] = "decide"]
  /\ UNCHANGED <<limiter, requests, clock, accepted>>
  /\ UNCHANGED <<ivars, bvars, fvars, svars>>

\* if request_count >= self.max_requests: raise HTTPException(429)
RlDecide(t) ==
  /\ rpc[t] = "decide"
  /\ rpc' = [rpc EXCEPT ![t] =
               IF rlocal[t].request_count >= limiter.max_requests THEN "idle"
               ELSE "append"]
  /\ UNCHANGED <<limiter, requests, clock, rlocal, accepted>>
  /\ UNCHANGED <<ivars, bvars, fvars, svars>>

\* self.requests[client_id].append(current_time); return True
RlAppend(t) ==
  /\ rpc[t] = "append"
  /\ requests' = Append(requests, rlocal[t].current_time)
  /\ accepted' = Append(accepted, rlocal[t].current_time)
  /\ rpc' = [rpc EXCEPT ![t] = "idle"]
  /\ UNCHANGED <<limiter, clock, rlocal>>
  /\ UNCHANGED <<ivars, bvars, fvars, svars>>

\* A second passes.
RlTick ==
  /\ clock < MaxTime
  /\ clock' = clock + 1
  /\ UNCHANGED <<limiter, requests, rpc, rlocal, accepted>>
  /\ UNCHANGED <<ivars, bvars, fvars, svars>>

LimiterInit ==
  /\ IndexQuiet
  /\ BatchQuiet
  /\ FnQuiet
  /\ SingletonQuiet
  /\ limiter \in [max_requests : 1..MaxLimit, window_seconds : 1..MaxWindow]
  /\ requests = <<>>
  /\ clock = 0
  /\ rpc = [t \in Threads |-> "idle"]
  /\ rlocal = [t \in Threads |-> [current_time |-> 0, request_count |-> 0]]
  /\ accepted = <<>>

LimiterNext ==
  \/ \E t \in Callers : RlStart(t)
  \/ \E t \in Callers : RlCleanupTest(t)
  \/ \E t \in Callers : RlPopleft(t)
  \/ \E t \in Callers : RlCount(t)
  \/ \E t \in Callers : RlDecide(t)
  \/ \E t \in Callers : RlAppend(t)
  \/ RlTick

SpecLimiter == LimiterInit /\ [][LimiterNext]_vars

\* The number of accepted requests whose time lies in from..(from + span).
AcceptedWithin(from, span) ==
  Cardinality({i \in 1..Len(accepted) :
                 accepted[i] >= from /\ accepted[i] <= from + span})

\* C29: for each client, the rate limiter accepts at most max_requests
\* requests within any span of window_seconds, also when check_rate_limit
\* calls for the same client run concurrently on different threads.
C29_AtMostMaxRequestsPerWindow ==
  \A from \in 0..MaxTime :
    AcceptedWithin(from, limiter.window_seconds) <= limiter.max_requests

-----------------------------------------------------------------------------
(* The notes of the analysis result, under SpecAnalyze *)

\* The maps _create_fallback_heatmap returns.
FallbackHeatmaps == {CreateFallbackHeatmap(failures) :
                       failures \in SUBSET DegradableFailures}

\* C30: the notes of the single-image analysis result say "Forensic
\* fallback heatmap" exactly when the returned heatmap was produced by the
\* fallback generator rather than taken from the saliency map of the
\* inference engine.
C30_NoteTellsHeatmapSource ==
  (fn.op = "analyze" /\ fn.out.status = 200)
  => (fn.out.body.notes = "Forensic fallback heatmap"
        <=> fn.out.body.heatmap \in FallbackHeatmaps)

====
